---- MODULE Spec2Model ----
(***************************************************************************)
(* savory-pie: declarative REST resources over Django models.              *)
(*                                                                         *)
(* A request starts from "idle", runs one handler statement by statement  *)
(* and returns to "idle"; a handler called by another one (put by post,    *)
(* any handler by the view) keeps its caller on `stack`.                   *)
(*   put    : ModelResource.put, every field's handle_incoming going       *)
(*            through the authorization decorator                          *)
(*   get    : QuerySetResource.get (filter, slice, prepare, rows, meta)    *)
(*   child  : QuerySetResource.get_child_resource                          *)
(*   post   : QuerySetResource.post                                        *)
(*   delete : ModelResource.delete                                         *)
(*   view   : api_view's view (resolve, dispatch, respond)                 *)
(*   schema : DjangoField.schema, run by simultaneous requests that share  *)
(*            the field descriptor                                         *)
(*   reverse: ReverseField.handle_incoming, at any depth of a nested write *)
(*   count_prepare : RelatedCountField.prepare, at any depth               *)
(***************************************************************************)
EXTENDS Integers, Sequences, FiniteSets, TLC

(* ------------------------------ bounds -------------------------------- *)
MaxUri == 3
MaxLen == 2
MaxVal == 2
MaxFields == 2
MaxRows == 5
MaxPageSize == 2
MaxPage == 3
MaxThreads == 2
MaxDepth == 2
MaxObjects == 2

VARIABLES
    op,            \* the handler in progress ("idle" when none)
    pc,            \* the statement the handler is at
    fields,        \* ModelResource.fields of the resource being written
    source_dict,   \* the incoming dict, one wire value per field
    model,         \* the wrapped model, one attribute value per field
    model0,        \* the model as it was when the request started
    source0,       \* the incoming dict as it was when the request started
    has_perm,      \* what ctx.request.user.has_perm answers
    fi,            \* index of the field the put loop is at
    entry,         \* (source_dict, model) as handed to the current handle_incoming
    adapted,       \* (name, source, target) returned by the auth adapter
    raised,        \* the exception that left the handler, if any
    log,           \* calls made so far, in order
    roundtrip,     \* the incoming dict is this resource's own GET output
    table,         \* the rows (pks) behind QuerySetResource.queryset
    page_size,     \* QuerySetResource.page_size (0 stands for None)
    params,        \* the request's query parameters
    filtered_queryset,
    sliced_queryset,
    final_queryset,
    todo,          \* rows of final_queryset not yet turned into resources
    objects,       \* the accumulated 'objects' list
    path_fragment, \* the path segment handed to get_child_resource
    result,        \* what the handler returned
    stack,         \* callers waiting for the handler in progress: "view", "post"
    request,       \* the HTTP request: method and resource path
    resolved,      \* what the path resolved to, with its allowed_methods
    response,      \* the HttpResponse the view returned
    trace,         \* what the view read and called on the resource, in order
    args,          \* the arguments the caller passes to resource.delete
    self_path,     \* QuerySetResource.resource_path
    parent_resource_path,  \* ModelResource.parent_resource_path
    resource,      \* the ModelResource instance at hand
    _field,        \* DjangoField._field of the shared descriptor
    spc,           \* position of each thread inside DjangoField.schema
    sresult,       \* what each thread's DjangoField.schema returned
    object_stack,  \* the context's traversal stack, top last
    target_obj,    \* the model handed to ReverseField.handle_incoming
    related        \* the declarations collected by the prepare pass

putVars == <<fields, source_dict, model, model0, source0, has_perm, fi,
             entry, adapted, roundtrip>>
getVars == <<table, page_size, params, filtered_queryset, sliced_queryset,
             final_queryset, todo, objects, path_fragment>>
httpVars == <<request, resolved, response, trace, args>>
viewVars == <<stack, httpVars>>
pathVars == <<self_path, parent_resource_path, resource>>
schemaVars == <<_field, spc, sresult>>
ctxVars == <<object_stack, target_obj, related>>
restVars == <<viewVars, pathVars, schemaVars, ctxVars>>
vars == <<op, pc, raised, log, result, putVars, getVars, restVars>>

(* ------------------------------ values -------------------------------- *)
(* Python values are tagged, so that values of different Python types are  *)
(* different values: a datetime never equals its ISO string, None never    *)
(* equals an empty list.                                                   *)
Val(t, n, s) == [t |-> t, n |-> n, s |-> s]
None == Val("None", 0, <<>>)
Int_(n) == Val("int", n, <<>>)
Datetime(n) == Val("datetime", n, <<>>)
Str(n) == Val("str", n, <<>>)
Uri(u) == Val("uri", u, <<>>)
Obj(u) == Val("model", u, <<>>)
Dict(u) == Val("dict", u, <<>>)
List(s) == Val("list", 0, s)
DictList(s) == Val("dictlist", 0, s)
Manager(s) == Val("manager", 0, s)

Uris == 1..MaxUri
Scalars == 1..MaxVal

RECURSIVE SeqsUpTo(_, _)
SeqsUpTo(S, n) ==
    IF n = 0 THEN {<<>>}
    ELSE LET shorter == SeqsUpTo(S, n - 1)
         IN shorter \cup {Append(s, x) : s \in shorter, x \in S}

IsInjective(s) == \A i, j \in 1..Len(s) : s[i] = s[j] => i = j
Range(s) == {s[i] : i \in 1..Len(s)}

\* incoming lists: any order, repetitions allowed
IncomingLists == SeqsUpTo(Uris, MaxLen)
\* a stored relation: distinct rows in whatever order the database returns
StoredRelations == {s \in SeqsUpTo(Uris, MaxUri) : IsInjective(s)}

\* Python truth value: None, 0 and empty lists are falsy; a related manager
\* is an object without __len__ and is truthy even when it has no rows.
Truthy(v) ==
    CASE v.t = "None" -> FALSE
      [] v.t = "int" -> v.n # 0
      [] v.t \in {"list", "dictlist"} -> v.s # <<>>
      [] OTHER -> TRUE

\* list.sort(): ascending insertion
Insert(x, s) ==
    LET k == Cardinality({i \in 1..Len(s) : s[i] <= x})
    IN SubSeq(s, 1, k) \o <<x>> \o SubSeq(s, k + 1, Len(s))
RECURSIVE sort(_)
sort(s) == IF s = <<>> THEN <<>> ELSE Insert(Head(s), sort(Tail(s)))


(* ------------------------------ fields -------------------------------- *)
\* Field classes, by what they store:
\*   "int", "datetime" : AttributeField of that type
\*   "uri"             : URIResourceField
\*   "subobject"       : SubModelResourceField / SubObjectResourceField
\*   "urilist"         : URIListResourceField
\*   "related"         : RelatedManagerField
ScalarKinds == {"int", "datetime"}
ReferenceKinds == {"uri", "subobject"}
CollectionKinds == {"urilist", "related"}
Kinds == ScalarKinds \cup ReferenceKinds \cup CollectionKinds

NoPermission == [declared |-> FALSE, permission_name |-> "", auth_adapter |-> "none"]
\* DjangoUserPermissionValidator(permission_name, auth_adapter=None)
DjangoUserPermissionValidator(permission_name, auth_adapter) ==
    [declared |-> TRUE, permission_name |-> permission_name, auth_adapter |-> auth_adapter]

\* The permission objects a field of each kind is declared with.  The URI
\* adapter lives in the Django layer and reaches a field only as the
\* permission's own auth_adapter.
Permissions(kind) ==
    {NoPermission} \cup
    CASE kind = "int" ->
            {DjangoUserPermissionValidator("perm", "none"),
             DjangoUserPermissionValidator("perm", "uri_auth_adapter")}
      [] kind = "datetime" ->
            {DjangoUserPermissionValidator("perm", "none"),
             DjangoUserPermissionValidator("perm", "datetime_auth_adapter")}
      [] kind = "subobject" ->
            {DjangoUserPermissionValidator("perm", "none"),
             DjangoUserPermissionValidator("other", "none")}
      [] OTHER ->
            {DjangoUserPermissionValidator("perm", "uri_auth_adapter")}

Field(name, kind, permission) == [name |-> name, kind |-> kind, permission |-> permission]

\* what the model attribute of a field can hold
StoredValues(kind) ==
    CASE kind = "int" -> {None} \cup {Int_(n) : n \in Scalars}
      [] kind = "datetime" -> {None} \cup {Datetime(n) : n \in Scalars}
      [] kind \in ReferenceKinds -> {None} \cup {Obj(u) : u \in Uris}
      [] OTHER -> {Manager(s) : s \in StoredRelations}

\* what the incoming dict can hold for a field
WireValues(kind) ==
    {None} \cup
    CASE kind = "int" -> {Int_(n) : n \in Scalars}
      [] kind = "datetime" -> {Str(n) : n \in Scalars}
      [] kind = "uri" -> {Uri(u) : u \in Uris}
      [] kind = "subobject" -> {Dict(u) : u \in Uris}
      [] kind = "urilist" -> {List(s) : s \in IncomingLists}
      [] OTHER -> {DictList(s) : s \in IncomingLists}

\* field._compute_property(ctx): the published name of the field
compute_property(field) == [published |-> field.name]

\* field.to_python_value(ctx, api_value): the formatter parses the wire form
to_python_value(field, api_value) ==
    IF api_value.t = "str" /\ field.kind = "datetime"
    THEN Datetime(api_value.n)
    ELSE api_value

\* field.to_api_value(ctx, python_value): the formatter writes the wire form
to_api_value(field, python_value) ==
    IF python_value.t = "datetime" THEN Str(python_value.n) ELSE python_value

\* ctx.build_resource_uri(field._resource_class(model))
build_resource_uri(target) == Uri(target.n)

\* [uri for each row of manager.all()], in the order the rows come back
uris_of(rows) == rows

(* --------------------------- auth adapters ---------------------------- *)
\* An adapter returns (name, source, target); `wire` is the entry of the
\* incoming dict after the call (an adapter may sort it in place) and `exc`
\* the exception it raised instead of returning.
Adapted(exc, name, source, target, wire) ==
    [exc |-> exc, name |-> name, source |-> source, target |-> target, wire |-> wire]
NotAdapted == Adapted("none", [published |-> 0], None, None, None)

authorization_adapter(field, wire, stored) ==
    Adapted("none", compute_property(field),
            to_python_value(field, wire),
            to_api_value(field, stored),
            wire)

datetime_auth_adapter(field, wire, stored) ==
    Adapted("none", compute_property(field),
            to_python_value(field, wire),
            stored,
            wire)

subobject_auth_adapter(field, wire, stored) ==
    Adapted("none", compute_property(field),
            IF wire # None THEN Uri(wire.n) ELSE None,
            IF stored # None THEN build_resource_uri(stored) ELSE None,
            wire)

\* mutant: target.sort() forgotten
uri_auth_adapter_unsorted_target(field, wire, stored) ==
    LET name == compute_property(field) IN
    IF Truthy(wire) /\ Truthy(stored)
    THEN CASE field.kind = "related" ->
                Adapted("none", name, List(sort(wire.s)), List(uris_of(stored.s)), wire)
           [] field.kind = "uri" ->
                Adapted("none", name, wire, build_resource_uri(stored), wire)
           [] field.kind = "urilist" ->
                Adapted("none", name, List(sort(wire.s)), List(uris_of(stored.s)),
                        List(sort(wire.s)))
           [] OTHER ->
                Adapted("TypeError", name, None, None, wire)
    ELSE Adapted("none", name, None, None, wire)

\* mutant: only None counts as nothing to compare
uri_auth_adapter_comparing_empty(field, wire, stored) ==
    LET name == compute_property(field) IN
    IF wire # None /\ stored # None
    THEN CASE field.kind = "related" ->
                Adapted("none", name, List(sort(wire.s)), List(sort(uris_of(stored.s))), wire)
           [] field.kind = "uri" ->
                Adapted("none", name, wire, build_resource_uri(stored), wire)
           [] field.kind = "urilist" ->
                Adapted("none", name, List(sort(wire.s)), List(sort(uris_of(stored.s))),
                        List(sort(wire.s)))
           [] OTHER ->
                Adapted("TypeError", name, None, None, wire)
    ELSE Adapted("none", name, None, None, wire)

uri_auth_adapter(field, wire, stored) ==
    LET name == compute_property(field) IN
    IF Truthy(wire) /\ Truthy(stored)
    THEN CASE field.kind = "related" ->
                Adapted("none", name, List(sort(wire.s)), List(sort(uris_of(stored.s))), wire)
           [] field.kind = "uri" ->
                Adapted("none", name, wire, build_resource_uri(stored), wire)
           [] field.kind = "urilist" ->
                \* source is the incoming list itself: source.sort() sorts it in place
                Adapted("none", name, List(sort(wire.s)), List(sort(uris_of(stored.s))),
                        List(sort(wire.s)))
           [] OTHER ->
                Adapted("TypeError", name, None, None, wire)
    ELSE Adapted("none", name, None, None, wire)

\* the adapter the decorator was built with: @authorization(adapter) on the
\* field class's handle_incoming
decorator_adapter(field) ==
    IF field.kind = "subobject" THEN "subobject_auth_adapter" ELSE "authorization_adapter"

\* mutant: the decorator's adapter preferred to the permission's
select_adapter_decorator_first(field) == decorator_adapter(field)

\* getattr(permission, 'auth_adapter', None) or self.auth_adapter
select_adapter(field) ==
    IF field.permission.auth_adapter # "none"
    THEN field.permission.auth_adapter
    ELSE decorator_adapter(field)

call_adapter(adapter, field, wire, stored) ==
    CASE adapter = "authorization_adapter" -> authorization_adapter(field, wire, stored)
      [] adapter = "datetime_auth_adapter" -> datetime_auth_adapter(field, wire, stored)
      [] adapter = "subobject_auth_adapter" -> subobject_auth_adapter(field, wire, stored)
      [] OTHER -> uri_auth_adapter(field, wire, stored)

\* mutant: the comparison inverted (has_perm asked when nothing changed)
is_write_authorized_inverted(user_has_perm, source, target) ==
    IF source = target
    THEN [authorized |-> user_has_perm, asked |-> TRUE]
    ELSE [authorized |-> TRUE, asked |-> FALSE]

\* mutant: has_perm asked whether or not the value changed
is_write_authorized_unconditional(user_has_perm, source, target) ==
    [authorized |-> user_has_perm, asked |-> TRUE]

\* mutant: has_perm asked, its answer dropped
is_write_authorized_answer_dropped(user_has_perm, source, target) ==
    IF source # target
    THEN [authorized |-> TRUE, asked |-> TRUE]
    ELSE [authorized |-> TRUE, asked |-> FALSE]

\* DjangoUserPermissionValidator.is_write_authorized: the answer, and whether
\* user.has_perm was called to get it
is_write_authorized(user_has_perm, source, target) ==
    IF source # target
    THEN [authorized |-> user_has_perm, asked |-> TRUE]
    ELSE [authorized |-> TRUE, asked |-> FALSE]

(* ------------------------- the wrapped handlers ----------------------- *)
RECURSIVE Dedup(_)
Dedup(s) ==
    IF s = <<>> THEN <<>>
    ELSE LET rest == Dedup(SubSeq(s, 1, Len(s) - 1))
             x == s[Len(s)]
         IN IF x \in Range(rest) THEN rest ELSE Append(rest, x)

\* the relation after rows not named are removed and rows newly named added
UpdatedRelation(rows, named) ==
    LET kept == SelectSeq(rows, LAMBDA r : r \in Range(named))
        added == SelectSeq(Dedup(named), LAMBDA r : r \notin Range(rows))
    IN kept \o added

\* fn(field, ctx, source_dict, target_obj): the field's own handle_incoming,
\* which writes the converted incoming value onto the model
fn(field, wire, stored) ==
    CASE field.kind \in ScalarKinds -> to_python_value(field, wire)
      [] field.kind \in ReferenceKinds -> IF wire = None THEN None ELSE Obj(wire.n)
      [] OTHER -> Manager(UpdatedRelation(stored.s, wire.s))

\* field.handle_outgoing(ctx, model, target_dict): the value put in the dict
handle_outgoing(field, stored) ==
    CASE field.kind \in ScalarKinds -> to_api_value(field, stored)
      [] field.kind = "uri" -> IF stored = None THEN None ELSE build_resource_uri(stored)
      [] field.kind = "subobject" -> IF stored = None THEN None ELSE Dict(stored.n)
      [] field.kind = "urilist" -> List(uris_of(stored.s))
      [] OTHER -> DictList(uris_of(stored.s))

\* ModelResource.get: one entry per declared field
ModelResource_get(fs, m) == [i \in 1..Len(fs) |-> handle_outgoing(fs[i], m[i])]


(* ------------------------------ requests ------------------------------ *)
Call(call, field, arg) == [call |-> call, field |-> field, arg |-> arg]
NoException == [type |-> "none", name |-> [published |-> 0]]
Exception(type, name) == [type |-> type, name |-> name]
NoEntry == [source_dict |-> <<>>, model |-> <<>>]
NoQuerySet == [rows |-> <<>>, ops |-> <<>>]
NoParams == [page |-> -1, flt |-> -1]
NoFragment == [t |-> "none", n |-> 0]
NoResult == [kind |-> "none", pk |-> 0, meta |-> <<>>, objects |-> <<>>]

PutIdle ==
    /\ fields = <<>>
    /\ source_dict = <<>>
    /\ model = <<>>
    /\ model0 = <<>>
    /\ source0 = <<>>
    /\ has_perm = FALSE
    /\ fi = 0
    /\ entry = NoEntry
    /\ adapted = NotAdapted
    /\ roundtrip = FALSE

GetIdle ==
    /\ table = <<>>
    /\ page_size = 0
    /\ params = NoParams
    /\ filtered_queryset = NoQuerySet
    /\ sliced_queryset = NoQuerySet
    /\ final_queryset = NoQuerySet
    /\ todo = <<>>
    /\ objects = <<>>
    /\ path_fragment = NoFragment

PutReset ==
    /\ fields' = <<>>
    /\ source_dict' = <<>>
    /\ model' = <<>>
    /\ model0' = <<>>
    /\ source0' = <<>>
    /\ has_perm' = FALSE
    /\ fi' = 0
    /\ entry' = NoEntry
    /\ adapted' = NotAdapted
    /\ roundtrip' = FALSE

GetReset ==
    /\ table' = <<>>
    /\ page_size' = 0
    /\ params' = NoParams
    /\ filtered_queryset' = NoQuerySet
    /\ sliced_queryset' = NoQuerySet
    /\ final_queryset' = NoQuerySet
    /\ todo' = <<>>
    /\ objects' = <<>>
    /\ path_fragment' = NoFragment

\* a resource_path: None, or the segments between the '/'
NoPath == [none |-> TRUE, segs |-> <<>>]
Path(segs) == [none |-> FALSE, segs |-> segs]
\* a path segment naming a registered collection ('foos', 'bars', ...)
Name(n) == [t |-> "name", n |-> n]
\* str(getattr(self.model, attr)): the numeral of a pk, 'None' for no pk
str(value) ==
    IF value = None THEN [t |-> "None", n |-> 0] ELSE [t |-> "digits", n |-> value.n]

\* a ModelResource instance: which one, its _resource_path, its model's pk
ModelResource(id, path, pk) == [id |-> id, _resource_path |-> path, pk |-> pk]
NoResource == ModelResource(0, NoPath, None)

NoRequest == [method |-> "none", path |-> <<>>]
Unresolved == [kind |-> "unresolved", allowed_methods |-> {}]
NoResponse == [status |-> 0, header |-> <<>>, body |-> <<>>]
Threads == 1..MaxThreads
NoSchema == [kind |-> "none"]
\* a model instance: which one, its pk, its back-reference attribute
TargetObj(id, pk, attr) == [id |-> id, pk |-> pk, attr |-> attr]
NoTarget == TargetObj(0, None, None)

RestIdle ==
    /\ stack = <<>>
    /\ request = NoRequest
    /\ resolved = Unresolved
    /\ response = NoResponse
    /\ trace = <<>>
    /\ args = <<>>
    /\ self_path = NoPath
    /\ parent_resource_path = NoPath
    /\ resource = NoResource
    /\ _field = "undeclared"
    /\ spc = [t \in Threads |-> "idle"]
    /\ sresult = [t \in Threads |-> NoSchema]
    /\ object_stack = <<>>
    /\ target_obj = NoTarget
    /\ related = <<>>

RestReset ==
    /\ stack' = <<>>
    /\ request' = NoRequest
    /\ resolved' = Unresolved
    /\ response' = NoResponse
    /\ trace' = <<>>
    /\ args' = <<>>
    /\ self_path' = NoPath
    /\ parent_resource_path' = NoPath
    /\ resource' = NoResource
    /\ _field' = "undeclared"
    /\ spc' = [t \in Threads |-> "idle"]
    /\ sresult' = [t \in Threads |-> NoSchema]
    /\ object_stack' = <<>>
    /\ target_obj' = NoTarget
    /\ related' = <<>>

Init ==
    /\ op = "idle"
    /\ pc = "idle"
    /\ raised = NoException
    /\ log = <<>>
    /\ result = NoResult
    /\ PutIdle
    /\ GetIdle
    /\ RestIdle

\* every request ends by returning to the dispatcher, which keeps nothing
Return ==
    /\ op # "idle"
    /\ stack = <<>>
    /\ pc \in {"done", "raised", "responded"}
    /\ op' = "idle"
    /\ pc' = "idle"
    /\ raised' = NoException
    /\ log' = <<>>
    /\ result' = NoResult
    /\ PutReset
    /\ GetReset
    /\ RestReset

(* -------------------------- ModelResource.put ------------------------- *)
\* Resources with one field of any class, and resources with several
\* AttributeFields.
SingleFieldResources ==
    UNION {{<<Field(1, k, p)>> : p \in Permissions(k)} : k \in Kinds}
SeveralFieldResources ==
    UNION {{[i \in 1..n |-> Field(i, "int", ps[i])] :
                ps \in [1..n -> {NoPermission, DjangoUserPermissionValidator("perm", "none")}]} :
           n \in 2..MaxFields}
Resources == SingleFieldResources \cup SeveralFieldResources

Models(fs) ==
    IF Len(fs) = 1
    THEN {<<v>> : v \in StoredValues(fs[1].kind)}
    ELSE [1..Len(fs) -> StoredValues("int")]
SourceDicts(fs) ==
    IF Len(fs) = 1
    THEN {<<v>> : v \in WireValues(fs[1].kind)}
    ELSE [1..Len(fs) -> WireValues("int")]

BeginPut(fs, m, sd, hp, rt) ==
    /\ op' = "put"
    /\ pc' = "put_loop"
    /\ fields' = fs
    /\ model' = m
    /\ model0' = m
    /\ source_dict' = sd
    /\ source0' = sd
    /\ has_perm' = hp
    /\ roundtrip' = rt
    /\ fi' = 1
    /\ UNCHANGED <<entry, adapted, raised, log, result, getVars>>
    /\ UNCHANGED restVars

\* a PUT with any incoming dict
StartPut ==
    /\ op = "idle"
    /\ \E fs \in Resources, hp \in BOOLEAN :
          \E m \in Models(fs), sd \in SourceDicts(fs) :
              BeginPut(fs, m, sd, hp, FALSE)

\* a PUT whose incoming dict is what ModelResource.get returned
StartRoundTrip ==
    /\ op = "idle"
    /\ \E fs \in Resources, hp \in BOOLEAN :
          \E m \in Models(fs) :
              BeginPut(fs, m, ModelResource_get(fs, m), hp, TRUE)

\* mutant: the loop stops one field short
PutLoop_short ==
    /\ op = "put" /\ pc = "put_loop"
    /\ IF fi < Len(fields)
       THEN /\ pc' = "inner"
            /\ entry' = [source_dict |-> source_dict, model |-> model]
            /\ log' = Append(log, Call("handle_incoming", fi, ""))
       ELSE /\ pc' = "save"
            /\ UNCHANGED <<entry, log>>
    /\ UNCHANGED <<op, fields, source_dict, model, model0, source0, has_perm, fi,
                   adapted, raised, roundtrip, result, getVars>>
    /\ UNCHANGED restVars

\* for field in self.fields: field.handle_incoming(ctx, source_dict, self.model)
PutLoop ==
    /\ op = "put" /\ pc = "put_loop"
    /\ IF fi <= Len(fields)
       THEN /\ pc' = "inner"
            /\ entry' = [source_dict |-> source_dict, model |-> model]
            /\ log' = Append(log, Call("handle_incoming", fi, ""))
       ELSE /\ pc' = "save"
            /\ UNCHANGED <<entry, log>>
    /\ UNCHANGED <<op, fields, source_dict, model, model0, source0, has_perm, fi,
                   adapted, raised, roundtrip, result, getVars>>
    /\ UNCHANGED restVars

\* mutant: the wrapped handler called without any check
Inner_unchecked ==
    /\ op = "put" /\ pc = "inner"
    /\ pc' = "fn"
    /\ UNCHANGED <<op, putVars, raised, log, result, getVars>>
    /\ UNCHANGED restVars

\* mutant: the check made whether or not a permission is declared
Inner_always_checked ==
    /\ op = "put" /\ pc = "inner"
    /\ pc' = "adapter"
    /\ UNCHANGED <<op, putVars, raised, log, result, getVars>>
    /\ UNCHANGED restVars

\* inner: permission = field.permission; if permission: ...
Inner ==
    /\ op = "put" /\ pc = "inner"
    /\ pc' = IF fields[fi].permission.declared THEN "adapter" ELSE "fn"
    /\ UNCHANGED <<op, putVars, raised, log, result, getVars>>
    /\ UNCHANGED restVars

\* name, source, target = auth_adapter(field, ctx, source_dict, target_obj)
Adapter ==
    /\ op = "put" /\ pc = "adapter"
    /\ LET adapter == select_adapter(fields[fi])
           a == call_adapter(adapter, fields[fi], source_dict[fi], model[fi])
       IN /\ log' = Append(log, Call("auth_adapter", fi, adapter))
          /\ source_dict' = [source_dict EXCEPT ![fi] = a.wire]
          /\ IF a.exc = "none"
             THEN /\ adapted' = a
                  /\ pc' = "authorize"
                  /\ raised' = raised
             ELSE /\ adapted' = adapted
                  /\ pc' = "raised"
                  /\ raised' = Exception(a.exc, a.name)
    /\ UNCHANGED <<op, fields, model, model0, source0, has_perm, fi, entry,
                   roundtrip, result, getVars>>
    /\ UNCHANGED restVars

\* mutant: the permission object asked a second time
Authorize_twice ==
    /\ op = "put" /\ pc = "authorize"
    /\ LET w == is_write_authorized(has_perm, adapted.source, adapted.target)
           asked == IF w.asked
                    THEN <<Call("has_perm", fi, fields[fi].permission.permission_name)>>
                    ELSE <<>>
           changed == IF adapted.source # adapted.target THEN "changed" ELSE "unchanged"
           once == Append(log, Call("is_write_authorized", fi, changed)) \o asked
       IN /\ log' = Append(once, Call("is_write_authorized", fi, changed)) \o asked
          /\ IF w.authorized
             THEN /\ pc' = "fn"
                  /\ raised' = raised
             ELSE /\ pc' = "raised"
                  /\ raised' = Exception("AuthorizationError", adapted.name)
    /\ UNCHANGED <<op, fields, source_dict, model, model0, source0, has_perm, fi,
                   entry, adapted, roundtrip, result, getVars>>
    /\ UNCHANGED restVars

\* if not permission.is_write_authorized(...): raise AuthorizationError(name)
Authorize ==
    /\ op = "put" /\ pc = "authorize"
    /\ LET w == is_write_authorized(has_perm, adapted.source, adapted.target)
           asked == IF w.asked
                    THEN <<Call("has_perm", fi, fields[fi].permission.permission_name)>>
                    ELSE <<>>
           changed == IF adapted.source # adapted.target THEN "changed" ELSE "unchanged"
       IN /\ log' = Append(log, Call("is_write_authorized", fi, changed)) \o asked
          /\ IF w.authorized
             THEN /\ pc' = "fn"
                  /\ raised' = raised
             ELSE /\ pc' = "raised"
                  /\ raised' = Exception("AuthorizationError", adapted.name)
    /\ UNCHANGED <<op, fields, source_dict, model, model0, source0, has_perm, fi,
                   entry, adapted, roundtrip, result, getVars>>
    /\ UNCHANGED restVars

\* return fn(field, ctx, source_dict, target_obj)
Fn ==
    /\ op = "put" /\ pc = "fn"
    /\ model' = [model EXCEPT ![fi] = fn(fields[fi], source_dict[fi], model[fi])]
    /\ log' = Append(log, Call("fn", fi, ""))
    /\ fi' = fi + 1
    /\ adapted' = NotAdapted
    /\ pc' = "put_loop"
    /\ UNCHANGED <<op, fields, source_dict, model0, source0, has_perm, entry,
                   raised, roundtrip, result, getVars>>
    /\ UNCHANGED restVars

\* self.model.save()
\* (saving a model that has no pk yet inserts a row and gives it the next pk)
Save ==
    /\ op = "put" /\ pc = "save"
    /\ log' = Append(log, Call("save", 0, ""))
    /\ pc' = "done"
    /\ IF resource # NoResource /\ resource.pk = None
       THEN /\ resource' = [resource EXCEPT !.pk = Int_(Len(table) + 1)]
            /\ table' = Append(table, Len(table) + 1)
       ELSE UNCHANGED <<resource, table>>
    /\ UNCHANGED <<op, fields, source_dict, model, model0, source0, has_perm, fi,
                   entry, adapted, raised, roundtrip, result>>
    /\ UNCHANGED <<page_size, params, filtered_queryset, sliced_queryset,
                   final_queryset, todo, objects, path_fragment>>
    /\ UNCHANGED <<viewVars, self_path, parent_resource_path, schemaVars, ctxVars>>

(* ------------------------ QuerySetResource.post ----------------------- *)
\* ModelResource.resource_path: the assigned path, else the parent's path
\* followed by the key, else None
resource_path(r, parent) ==
    IF ~r._resource_path.none THEN r._resource_path
    ELSE IF ~parent.none THEN Path(Append(parent.segs, str(r.pk)))
    ELSE NoPath

\* mutant: the path assigned even when the resource already has one
assign_path_unguarded(self, r, parent) ==
    IF ~self.none
    THEN [r EXCEPT !._resource_path = Path(Append(self.segs, str(r.pk)))]
    ELSE r

\* if resource.resource_path is None and self.resource_path is not None:
\*     resource.resource_path = self.resource_path + '/' + str(resource.key)
assign_path(self, r, parent) ==
    IF resource_path(r, parent).none /\ ~self.none
    THEN [r EXCEPT !._resource_path = Path(Append(self.segs, str(r.pk)))]
    ELSE r

\* QuerySetResource.to_resource(model): a new resource around the model, its
\* path filled in under the same condition
to_resource(self, id, pk, parent) == assign_path(self, ModelResource(id, NoPath, pk), parent)

\* resources a POST creates: AttributeFields only
PostResources == {fs \in Resources : \A i \in 1..Len(fs) : fs[i].kind = "int"}
\* model_class(): no pk, no attribute set
blank(fs) == [i \in 1..Len(fs) |-> None]
CollectionPaths == {NoPath, Path(<<Name(1)>>)}
ParentPaths == {NoPath, Path(<<Name(1)>>), Path(<<Name(2)>>)}

\* QuerySetResource.post(ctx, source_dict) called on a collection
StartPost ==
    /\ op = "idle"
    /\ \E fs \in PostResources, hp \in BOOLEAN, n \in {0, MaxRows},
          sp \in CollectionPaths, pp \in ParentPaths :
          \E sd \in SourceDicts(fs) :
              /\ fields' = fs
              /\ source_dict' = sd
              /\ source0' = sd
              /\ has_perm' = hp
              /\ table' = [i \in 1..n |-> i]
              /\ self_path' = sp
              /\ parent_resource_path' = pp
    /\ op' = "post"
    /\ pc' = "create"
    /\ UNCHANGED <<model, model0, fi, entry, adapted, roundtrip, raised, log, result>>
    /\ UNCHANGED <<page_size, params, filtered_queryset, sliced_queryset,
                   final_queryset, todo, objects, path_fragment>>
    /\ UNCHANGED <<viewVars, resource, schemaVars, ctxVars>>

\* mutant: the path derived when the resource is created, before the put
PostCreate_addressed ==
    /\ op = "post" /\ pc = "create"
    /\ resource' = assign_path(self_path, ModelResource(1, NoPath, None),
                               parent_resource_path)
    /\ model' = blank(fields)
    /\ model0' = blank(fields)
    /\ fi' = 1
    /\ stack' = Append(stack, "post")
    /\ op' = "put"
    /\ pc' = "put_loop"
    /\ UNCHANGED <<fields, source_dict, source0, has_perm, entry, adapted, roundtrip,
                   raised, log, result, getVars>>
    /\ UNCHANGED <<httpVars, self_path, parent_resource_path, schemaVars, ctxVars>>

\* resource = self.resource_class.create_resource(); resource.put(ctx, source_dict)
PostCreate ==
    /\ op = "post" /\ pc = "create"
    /\ resource' = ModelResource(1, NoPath, None)
    /\ model' = blank(fields)
    /\ model0' = blank(fields)
    /\ fi' = 1
    /\ stack' = Append(stack, "post")
    /\ op' = "put"
    /\ pc' = "put_loop"
    /\ UNCHANGED <<fields, source_dict, source0, has_perm, entry, adapted, roundtrip,
                   raised, log, result, getVars>>
    /\ UNCHANGED <<httpVars, self_path, parent_resource_path, schemaVars, ctxVars>>

Top(s) == s[Len(s)]
Pop(s) == SubSeq(s, 1, Len(s) - 1)

\* after the put: the path filled in and the resource returned; an exception
\* of the put leaves post at once
PostReturn ==
    /\ op = "put" /\ pc \in {"done", "raised"}
    /\ stack # <<>> /\ Top(stack) = "post"
    /\ stack' = Pop(stack)
    /\ op' = "post"
    /\ IF pc = "done"
       THEN /\ resource' = assign_path(self_path, resource, parent_resource_path)
            /\ result' = [NoResult EXCEPT !.kind = "resource", !.pk = resource.pk.n]
       ELSE UNCHANGED <<resource, result>>
    /\ UNCHANGED <<pc, raised, log, putVars, getVars>>
    /\ UNCHANGED <<httpVars, self_path, parent_resource_path, schemaVars, ctxVars>>

(* ------------------------ QuerySetResource.get ------------------------ *)
\* page_size = None is written NoPaging
NoPaging == 0
\* the absent query parameter
Absent == -1
\* a 'page' parameter below zero
NegativePage == -2

\* _ParamsImpl.get_as(key, int, default)
get_as(value, default) == IF value = Absent THEN default ELSE value

QuerySet(rows, ops) == [rows |-> rows, ops |-> ops]

\* filter_queryset: the declared filter keeps the rows whose pk has the
\* parity the 'flt' parameter asks for; queryset.filter() follows
filter_queryset(ps, queryset) ==
    LET kept == IF ps.flt = Absent
                THEN queryset.rows
                ELSE SelectSeq(queryset.rows, LAMBDA pk : pk % 2 = ps.flt)
    IN QuerySet(kept, Append(queryset.ops, "filter"))

Min(a, b) == IF a < b THEN a ELSE b

\* mutant: the slice takes the row at offset + page_size too
slice_queryset_inclusive(size, ps, queryset) ==
    IF size # NoPaging
    THEN LET page == get_as(ps.page, 0)
             offset == page * size
         IN QuerySet(SubSeq(queryset.rows, offset + 1,
                            Min(offset + size + 1, Len(queryset.rows))),
                     Append(queryset.ops, "slice"))
    ELSE queryset

\* slice_queryset: queryset[offset: offset + page_size] when paging
slice_queryset(size, ps, queryset) ==
    IF size # NoPaging
    THEN LET page == get_as(ps.page, 0)
             offset == page * size
         IN QuerySet(SubSeq(queryset.rows, offset + 1,
                            Min(offset + size, Len(queryset.rows))),
                     Append(queryset.ops, "slice"))
    ELSE queryset

\* prepare_queryset: Related() filled by the fields' prepare, then applied
prepare_queryset(queryset) == QuerySet(queryset.rows, Append(queryset.ops, "prepare"))

\* build_page_uri: the collection's URI with ?page=<page>
build_page_uri(page) == [page |-> page]

\* mutant: 'next' offered when the next page would start exactly at the end
get_meta_off_by_one(size, ps, filtered, objs) ==
    IF size # NoPaging
    THEN LET count == Len(filtered.rows)
             page == get_as(ps.page, 0)
             m1 == IF page > 0 THEN ("prev" :> build_page_uri(page - 1)) ELSE <<>>
             m2 == ("count" :> count) @@ m1
         IN IF (page + 1) * size <= count
            THEN ("next" :> build_page_uri(page + 1)) @@ m2
            ELSE m2
    ELSE ("count" :> Len(objs))

\* mutant: the accumulated objects counted when paging too
get_meta_counting_objects(size, ps, filtered, objs) ==
    IF size # NoPaging
    THEN LET count == Len(objs)
             page == get_as(ps.page, 0)
             m1 == IF page > 0 THEN ("prev" :> build_page_uri(page - 1)) ELSE <<>>
             m2 == ("count" :> count) @@ m1
         IN IF (page + 1) * size < Len(filtered.rows)
            THEN ("next" :> build_page_uri(page + 1)) @@ m2
            ELSE m2
    ELSE ("count" :> Len(objs))

\* the meta dict of a GET
get_meta(size, ps, filtered, objs) ==
    IF size # NoPaging
    THEN LET count == Len(filtered.rows)
             page == get_as(ps.page, 0)
             m1 == IF page > 0 THEN ("prev" :> build_page_uri(page - 1)) ELSE <<>>
             m2 == ("count" :> count) @@ m1
         IN IF (page + 1) * size < count
            THEN ("next" :> build_page_uri(page + 1)) @@ m2
            ELSE m2
    ELSE ("count" :> Len(objs))

\* complete_queryset = self.queryset.all()
StartGet ==
    /\ op = "idle"
    /\ \E n \in 0..MaxRows, size \in {NoPaging} \cup 1..MaxPageSize,
          page \in {Absent, NegativePage} \cup 0..MaxPage, flt \in {Absent, 0, 1} :
          /\ table' = [i \in 1..n |-> i]
          /\ page_size' = size
          /\ params' = [page |-> page, flt |-> flt]
    /\ \E sp \in CollectionPaths, pp \in ParentPaths :
          /\ self_path' = sp
          /\ parent_resource_path' = pp
    /\ op' = "get"
    /\ pc' = "filter"
    /\ UNCHANGED <<putVars, raised, log, result, filtered_queryset, sliced_queryset,
                   final_queryset, todo, objects, path_fragment>>
    /\ UNCHANGED <<viewVars, resource, schemaVars, ctxVars>>

\* filtered_queryset = self.filter_queryset(ctx, params, complete_queryset)
GetFilter ==
    /\ op = "get" /\ pc = "filter"
    /\ filtered_queryset' = filter_queryset(params, QuerySet(table, <<>>))
    /\ log' = Append(log, Call("filter_queryset", 0, ""))
    /\ pc' = "slice"
    /\ UNCHANGED <<op, putVars, raised, result, table, page_size, params,
                   sliced_queryset, final_queryset, todo, objects, path_fragment>>
    /\ UNCHANGED restVars

\* sliced_queryset = self.slice_queryset(ctx, params, filtered_queryset)
\* (a queryset refuses a slice that starts below zero)
GetSlice ==
    /\ op = "get" /\ pc = "slice"
    /\ log' = Append(log, Call("slice_queryset", 0, ""))
    /\ IF page_size # NoPaging /\ get_as(params.page, 0) * page_size < 0
       THEN /\ pc' = "raised"
            /\ raised' = Exception("AssertionError", [published |-> 0])
            /\ UNCHANGED sliced_queryset
       ELSE /\ sliced_queryset' = slice_queryset(page_size, params, filtered_queryset)
            /\ pc' = "prepare"
            /\ UNCHANGED raised
    /\ UNCHANGED <<op, putVars, result, table, page_size, params,
                   filtered_queryset, final_queryset, todo, objects, path_fragment>>
    /\ UNCHANGED restVars

\* mutant: the queryset prepared before it is sliced
GetPrepare_before_slice ==
    /\ op = "get" /\ pc = "prepare"
    /\ final_queryset' = slice_queryset(page_size, params, prepare_queryset(filtered_queryset))
    /\ todo' = final_queryset'.rows
    /\ log' = Append(log, Call("prepare_queryset", 0, ""))
    /\ pc' = "rows"
    /\ UNCHANGED <<op, putVars, raised, result, table, page_size, params,
                   filtered_queryset, sliced_queryset, objects, path_fragment>>
    /\ UNCHANGED restVars

\* final_queryset = self.prepare_queryset(ctx, sliced_queryset)
GetPrepare ==
    /\ op = "get" /\ pc = "prepare"
    /\ final_queryset' = prepare_queryset(sliced_queryset)
    /\ todo' = final_queryset'.rows
    /\ log' = Append(log, Call("prepare_queryset", 0, ""))
    /\ pc' = "rows"
    /\ UNCHANGED <<op, putVars, raised, result, table, page_size, params,
                   filtered_queryset, sliced_queryset, objects, path_fragment>>
    /\ UNCHANGED restVars

\* mutant: the prepare pass run again for every row
GetRow_preparing ==
    /\ op = "get" /\ pc = "rows"
    /\ IF todo # <<>>
       THEN /\ objects' = Append(objects, Head(todo))
            /\ todo' = Tail(todo)
            /\ resource' = to_resource(self_path, resource.id + 1, Int_(Head(todo)),
                                       parent_resource_path)
            /\ log' = log \o <<Call("prepare_queryset", 0, ""),
                                Call("to_resource", Head(todo), "")>>
            /\ pc' = "rows"
       ELSE /\ pc' = "meta"
            /\ UNCHANGED <<objects, todo, log, resource>>
    /\ UNCHANGED <<op, putVars, raised, result, table, page_size, params,
                   filtered_queryset, sliced_queryset, final_queryset, path_fragment>>
    /\ UNCHANGED <<viewVars, self_path, parent_resource_path, schemaVars, ctxVars>>

\* for model in final_queryset: objects.append(self.to_resource(model).get(...))
GetRow ==
    /\ op = "get" /\ pc = "rows"
    /\ IF todo # <<>>
       THEN /\ objects' = Append(objects, Head(todo))
            /\ todo' = Tail(todo)
            /\ resource' = to_resource(self_path, resource.id + 1, Int_(Head(todo)),
                                       parent_resource_path)
            /\ log' = Append(log, Call("to_resource", Head(todo), ""))
            /\ pc' = "rows"
       ELSE /\ pc' = "meta"
            /\ UNCHANGED <<objects, todo, log, resource>>
    /\ UNCHANGED <<op, putVars, raised, result, table, page_size, params,
                   filtered_queryset, sliced_queryset, final_queryset, path_fragment>>
    /\ UNCHANGED <<viewVars, self_path, parent_resource_path, schemaVars, ctxVars>>

\* meta = dict() ... return {'meta': meta, 'objects': objects}
GetMeta ==
    /\ op = "get" /\ pc = "meta"
    /\ result' = [kind |-> "dict", pk |-> 0,
                  meta |-> get_meta(page_size, params, filtered_queryset, objects),
                  objects |-> objects]
    /\ pc' = "done"
    /\ UNCHANGED <<op, putVars, raised, log, getVars>>
    /\ UNCHANGED restVars

(* ----------------- QuerySetResource.get_child_resource ---------------- *)
\* path segments: 'schema', a decimal numeral, or text that is no numeral
Fragments ==
    {[t |-> "schema", n |-> 0], [t |-> "text", n |-> 0]}
        \cup {[t |-> "digits", n |-> k] : k \in 0..(MaxRows + 1)}

\* published_key = ('pk', int): int(path_fragment) raises ValueError on text
\* that is no numeral
key_type(fragment) ==
    IF fragment.t = "digits"
    THEN [exc |-> "none", value |-> fragment.n]
    ELSE [exc |-> "ValueError", value |-> 0]

\* ModelResource.get_from_queryset: queryset.get(pk=type_(path_fragment))
get_from_queryset(queryset, fragment) ==
    LET key == key_type(fragment) IN
    IF key.exc # "none" THEN [exc |-> key.exc, pk |-> 0]
    ELSE IF key.value \in Range(queryset.rows) THEN [exc |-> "none", pk |-> key.value]
    ELSE [exc |-> "DoesNotExist", pk |-> 0]

\* if path_fragment == 'schema': return SchemaResource(self.resource_class)
StartChild ==
    /\ op = "idle"
    /\ \E n \in 0..MaxRows, f \in Fragments :
          /\ table' = [i \in 1..n |-> i]
          /\ path_fragment' = f
          /\ IF f.t = "schema"
             THEN /\ result' = [NoResult EXCEPT !.kind = "SchemaResource"]
                  /\ pc' = "done"
             ELSE /\ result' = result
                  /\ pc' = "child_prepare"
    /\ \E sp \in CollectionPaths, pp \in ParentPaths :
          /\ self_path' = sp
          /\ parent_resource_path' = pp
    /\ op' = "child"
    /\ UNCHANGED <<putVars, raised, log, page_size, params, filtered_queryset,
                   sliced_queryset, final_queryset, todo, objects>>
    /\ UNCHANGED <<viewVars, resource, schemaVars, ctxVars>>

\* queryset = self.prepare_queryset(ctx, self.queryset)
ChildPrepare ==
    /\ op = "child" /\ pc = "child_prepare"
    /\ final_queryset' = prepare_queryset(QuerySet(table, <<>>))
    /\ log' = Append(log, Call("prepare_queryset", 0, ""))
    /\ pc' = "child_lookup"
    /\ UNCHANGED <<op, putVars, raised, result, table, page_size, params,
                   filtered_queryset, sliced_queryset, todo, objects, path_fragment>>
    /\ UNCHANGED restVars

\* try: model = get_from_queryset(...); return self.to_resource(model)
\* except queryset.model.DoesNotExist: return None
ChildLookup ==
    /\ op = "child" /\ pc = "child_lookup"
    /\ LET found == get_from_queryset(final_queryset, path_fragment) IN
       CASE found.exc = "none" ->
                /\ result' = [NoResult EXCEPT !.kind = "resource", !.pk = found.pk]
                /\ resource' = to_resource(self_path, resource.id + 1, Int_(found.pk),
                                           parent_resource_path)
                /\ log' = Append(log, Call("to_resource", found.pk, ""))
                /\ raised' = raised
                /\ pc' = "done"
         [] found.exc = "DoesNotExist" ->
                /\ result' = [NoResult EXCEPT !.kind = "None"]
                /\ UNCHANGED <<log, raised, resource>>
                /\ pc' = "done"
         [] OTHER ->
                /\ raised' = Exception(found.exc, [published |-> 0])
                /\ UNCHANGED <<log, result, resource>>
                /\ pc' = "raised"
    /\ UNCHANGED <<op, putVars, getVars>>
    /\ UNCHANGED <<viewVars, self_path, parent_resource_path, schemaVars, ctxVars>>

(* ------------------------- ModelResource.delete ----------------------- *)
\* def delete(self, ctx): the parameters after self
delete_parameters == <<"ctx">>

\* ModelResource.delete(ctx) called on a resource around an existing row
StartDelete ==
    /\ op = "idle"
    /\ \E n \in 1..MaxRows :
          \E k \in 1..n :
              /\ table' = [i \in 1..n |-> i]
              /\ resource' = ModelResource(1, NoPath, Int_(k))
    /\ args' = <<"ctx">>
    /\ op' = "delete"
    /\ pc' = "call"
    /\ UNCHANGED <<putVars, raised, log, result, page_size, params, filtered_queryset,
                   sliced_queryset, final_queryset, todo, objects, path_fragment>>
    /\ UNCHANGED <<stack, request, resolved, response, trace, self_path,
                   parent_resource_path, schemaVars, ctxVars>>

\* the call binds its arguments to the parameters (TypeError when their
\* number differs); the body is self.model.delete()
Delete ==
    /\ op = "delete" /\ pc = "call"
    /\ IF Len(args) = Len(delete_parameters)
       THEN /\ log' = Append(log, Call("model.delete", resource.pk.n, ""))
            /\ table' = SelectSeq(table, LAMBDA pk : pk # resource.pk.n)
            /\ pc' = "done"
            /\ raised' = raised
       ELSE /\ raised' = Exception("TypeError", [published |-> 0])
            /\ pc' = "raised"
            /\ UNCHANGED <<log, table>>
    /\ UNCHANGED <<op, putVars, result, page_size, params, filtered_queryset,
                   sliced_queryset, final_queryset, todo, objects, path_fragment>>
    /\ UNCHANGED restVars

(* ------------------------------ api_view ------------------------------ *)
\* request.method: the four the view dispatches, and one standing for any other
HandledMethods == {"GET", "POST", "PUT", "DELETE"}
Methods == HandledMethods \cup {"PATCH"}

\* resource paths asked for: the registered collection, an unregistered name,
\* and the collection followed by one more segment
ViewPaths ==
    {<<Name(1)>>, <<Name(2)>>} \cup {<<Name(1), f>> : f \in Fragments}

\* the methods a resource class defines
defined_methods(kind) ==
    CASE kind = "QuerySetResource" -> {"GET", "POST"}
      [] kind = "ModelResource" -> {"GET", "PUT", "DELETE"}
      [] kind = "SchemaResource" -> {"GET"}
      [] OTHER -> {}

\* Resource.allowed_methods: by default the methods the resource defines (for
\* a SchemaResource, those of an instance of the resource class it describes);
\* a class may override it with a narrower set
Overrides == {"default", "read_only", "nothing"}
allowed_methods(kind, override) ==
    LET default == IF kind = "SchemaResource"
                   THEN defined_methods("ModelResource")
                   ELSE defined_methods(kind)
    IN CASE override = "default" -> default
         [] override = "read_only" -> default \cap {"GET"}
         [] OTHER -> {}

Resolved(kind, allowed) == [kind |-> kind, allowed_methods |-> allowed]

\* ctx.build_resource_uri(resource): the base URI followed by the resource's path
resource_uri(path) == [base_uri |-> "base", path |-> path]

\* _not_found
not_found == [status |-> 404, header |-> <<>>, body |-> <<>>]
\* _not_allowed_method
not_allowed_method(allowed) ==
    [status |-> 405, header |-> ("Allowed" :> allowed), body |-> <<>>]
\* mutant: the creation answered with a plain 200
created_as_success(location) ==
    [status |-> 200, header |-> ("Location" :> location), body |-> <<>>]
\* _created
created(location) ==
    [status |-> 201, header |-> ("Location" :> location), body |-> <<>>]
\* _content_success
content_success(content_dict) ==
    [status |-> 200, header |-> <<>>, body |-> ("content" :> content_dict)]
\* _no_content_success
no_content_success == [status |-> 204, header |-> <<>>, body |-> <<>>]
\* _success
success == [status |-> 200, header |-> <<>>, body |-> <<>>]
\* mutant: the error reported as a plain success
internal_error_swallowed(error) == [status |-> 200, header |-> <<>>, body |-> <<>>]
\* _internal_error
internal_error(error) ==
    [status |-> 500, header |-> <<>>, body |-> ("error" :> error)]

\* view(request, resource_path)
ViewStart ==
    /\ op = "idle"
    /\ \E m \in Methods, p \in ViewPaths, n \in 0..MaxRows, pp \in ParentPaths :
          /\ request' = [method |-> m, path |-> p]
          /\ table' = [i \in 1..n |-> i]
          /\ parent_resource_path' = pp
    /\ op' = "view"
    /\ pc' = "resolve"
    /\ UNCHANGED <<putVars, raised, log, result, page_size, params, filtered_queryset,
                   sliced_queryset, final_queryset, todo, objects, path_fragment>>
    /\ UNCHANGED <<stack, resolved, response, trace, args, self_path, resource,
                   schemaVars, ctxVars>>

\* resource = ctx.resolve_resource_path(resource_path): the root's registered
\* children by name, then get_child_resource for the next segment
ViewResolve ==
    /\ op = "view" /\ pc = "resolve"
    /\ LET path == request.path IN
       CASE Len(path) = 1 /\ path[1] = Name(1) ->
                /\ \E o \in Overrides :
                      resolved' = Resolved("QuerySetResource",
                                           allowed_methods("QuerySetResource", o))
                /\ self_path' = Path(<<Name(1)>>)
                /\ pc' = "dispatch"
                /\ UNCHANGED <<op, stack, path_fragment, result>>
         [] Len(path) = 1 /\ path[1] # Name(1) ->
                /\ resolved' = Resolved("None", {})
                /\ pc' = "dispatch"
                /\ UNCHANGED <<op, stack, path_fragment, result, self_path>>
         [] OTHER ->
                /\ self_path' = Path(<<Name(1)>>)
                /\ path_fragment' = path[2]
                /\ stack' = Append(stack, "view")
                /\ op' = "child"
                /\ IF path[2].t = "schema"
                   THEN /\ result' = [NoResult EXCEPT !.kind = "SchemaResource"]
                        /\ pc' = "done"
                   ELSE /\ result' = result
                        /\ pc' = "child_prepare"
                /\ UNCHANGED resolved
    /\ UNCHANGED <<putVars, raised, log, table, page_size, params, filtered_queryset,
                   sliced_queryset, final_queryset, todo, objects>>
    /\ UNCHANGED <<request, response, trace, args, parent_resource_path, resource,
                   schemaVars, ctxVars>>

\* the traversal fills in the path of a resource that has none
traversed(r, path, parent) ==
    IF resource_path(r, parent).none THEN [r EXCEPT !._resource_path = Path(path)] ELSE r

kind_of(child) ==
    CASE child = "resource" -> "ModelResource"
      [] child = "SchemaResource" -> "SchemaResource"
      [] OTHER -> "None"

\* get_child_resource has returned to the traversal, or raised into the view's
\* try block
ViewResolved ==
    /\ op = "child" /\ pc \in {"done", "raised"}
    /\ stack # <<>> /\ Top(stack) = "view"
    /\ stack' = Pop(stack)
    /\ op' = "view"
    /\ IF pc = "raised"
       THEN /\ response' = internal_error(raised.type)
            /\ pc' = "responded"
            /\ UNCHANGED <<resolved, resource>>
       ELSE /\ \E o \in Overrides :
                  resolved' = Resolved(kind_of(result.kind),
                                       allowed_methods(kind_of(result.kind), o))
            /\ resource' = IF result.kind = "resource"
                           THEN traversed(resource, request.path, parent_resource_path)
                           ELSE resource
            /\ pc' = "dispatch"
            /\ UNCHANGED response
    /\ UNCHANGED <<raised, log, result, putVars, getVars>>
    /\ UNCHANGED <<request, trace, args, self_path, parent_resource_path, schemaVars, ctxVars>>

\* mutant: the handler called whether or not the method is allowed
ViewDispatch_unchecked ==
    /\ op = "view" /\ pc = "dispatch"
    /\ CASE resolved.kind = "None" ->
                /\ response' = not_found
                /\ pc' = "responded"
                /\ UNCHANGED trace
         [] resolved.kind # "None" /\ request.method \in HandledMethods
                /\ request.method \in defined_methods(resolved.kind) ->
                /\ trace' = Append(trace, "allowed_methods")
                /\ pc' = "call"
                /\ UNCHANGED response
         [] OTHER ->
                /\ trace' = Append(trace, "allowed_methods")
                /\ response' = not_allowed_method(resolved.allowed_methods)
                /\ pc' = "responded"
    /\ UNCHANGED <<op, raised, log, result, putVars, getVars>>
    /\ UNCHANGED <<stack, request, resolved, args, pathVars, schemaVars, ctxVars>>

\* mutant: no test for None; the method is looked up on whatever was resolved
ViewDispatch_without_none_test ==
    /\ op = "view" /\ pc = "dispatch"
    /\ CASE request.method \in HandledMethods
                /\ request.method \in resolved.allowed_methods ->
                /\ trace' = Append(trace, "allowed_methods")
                /\ pc' = "call"
                /\ UNCHANGED response
         [] request.method \in HandledMethods
                /\ request.method \notin resolved.allowed_methods ->
                /\ trace' = trace \o <<"allowed_methods", "allowed_methods">>
                /\ response' = not_allowed_method(resolved.allowed_methods)
                /\ pc' = "responded"
         [] OTHER ->
                /\ trace' = Append(trace, "allowed_methods")
                /\ response' = not_allowed_method(resolved.allowed_methods)
                /\ pc' = "responded"
    /\ UNCHANGED <<op, raised, log, result, putVars, getVars>>
    /\ UNCHANGED <<stack, request, resolved, args, pathVars, schemaVars, ctxVars>>

\* if resource is None: 404; GET/POST/PUT/DELETE: the method looked up in
\* resource.allowed_methods; any other method: 405
ViewDispatch ==
    /\ op = "view" /\ pc = "dispatch"
    /\ CASE resolved.kind = "None" ->
                /\ response' = not_found
                /\ pc' = "responded"
                /\ UNCHANGED trace
         [] resolved.kind # "None" /\ request.method \in HandledMethods
                /\ request.method \in resolved.allowed_methods ->
                /\ trace' = Append(trace, "allowed_methods")
                /\ pc' = "call"
                /\ UNCHANGED response
         [] resolved.kind # "None" /\ request.method \in HandledMethods
                /\ request.method \notin resolved.allowed_methods ->
                /\ trace' = trace \o <<"allowed_methods", "allowed_methods">>
                /\ response' = not_allowed_method(resolved.allowed_methods)
                /\ pc' = "responded"
         [] OTHER ->
                /\ trace' = Append(trace, "allowed_methods")
                /\ response' = not_allowed_method(resolved.allowed_methods)
                /\ pc' = "responded"
    /\ UNCHANGED <<op, raised, log, result, putVars, getVars>>
    /\ UNCHANGED <<stack, request, resolved, args, pathVars, schemaVars, ctxVars>>

\* resources reached by path: one AttributeField
ViewResources == {fs \in PostResources : Len(fs) = 1}

\* the resource has no such method: the attribute lookup raises inside the try
NoSuchMethod(method) ==
    /\ raised' = Exception("AttributeError", [published |-> 0])
    /\ response' = internal_error("AttributeError")
    /\ pc' = "responded"
    /\ UNCHANGED <<op, stack, trace, args, log, result, putVars, getVars>>

\* _process_get: content_dict = resource.get(ctx, _ParamsImpl(request.GET))
ViewGet ==
    /\ op = "view" /\ pc = "call" /\ request.method = "GET"
    /\ resolved.kind \in {"QuerySetResource", "ModelResource"}
    /\ trace' = Append(trace, "get")
    /\ stack' = Append(stack, "view")
    /\ IF resolved.kind = "QuerySetResource"
       THEN /\ \E size \in {NoPaging} \cup 1..MaxPageSize,
                  page \in {Absent} \cup 0..MaxPage, flt \in {Absent, 0, 1} :
                  /\ page_size' = size
                  /\ params' = [page |-> page, flt |-> flt]
            /\ op' = "get"
            /\ pc' = "filter"
            /\ log' = <<>>
            /\ UNCHANGED <<fields, model, model0, result>>
       ELSE /\ \E fs \in ViewResources :
                  \E m \in Models(fs) :
                      /\ fields' = fs
                      /\ model' = m
                      /\ model0' = m
                      /\ result' = [NoResult EXCEPT !.kind = "dict",
                                                    !.objects = ModelResource_get(fs, m)]
            /\ op' = "model_get"
            /\ pc' = "done"
            /\ UNCHANGED <<page_size, params, log>>
    /\ UNCHANGED <<source_dict, source0, has_perm, fi, entry, adapted, roundtrip,
                   raised, table, filtered_queryset, sliced_queryset, final_queryset,
                   todo, objects, path_fragment>>
    /\ UNCHANGED <<request, resolved, response, args, pathVars, schemaVars, ctxVars>>

\* _process_post: new_resource = resource.post(ctx, ctx.formatter.read_from(request))
ViewPost ==
    /\ op = "view" /\ pc = "call" /\ request.method = "POST"
    /\ trace' = Append(trace, "post")
    /\ stack' = Append(stack, "view")
    /\ \E fs \in ViewResources, hp \in BOOLEAN :
          \E sd \in SourceDicts(fs) :
              /\ fields' = fs
              /\ source_dict' = sd
              /\ source0' = sd
              /\ has_perm' = hp
    /\ op' = "post"
    /\ pc' = "create"
    /\ log' = <<>>
    /\ UNCHANGED <<model, model0, fi, entry, adapted, roundtrip, raised, result, getVars>>
    /\ UNCHANGED <<request, resolved, response, args, pathVars, schemaVars, ctxVars>>

\* _process_put: resource.put(ctx, ctx.formatter.read_from(request))
ViewPut ==
    /\ op = "view" /\ pc = "call" /\ request.method = "PUT"
    /\ IF resolved.kind = "ModelResource"
       THEN /\ trace' = Append(trace, "put")
            /\ stack' = Append(stack, "view")
            /\ \E fs \in ViewResources, hp \in BOOLEAN :
                  \E m \in Models(fs), sd \in SourceDicts(fs) :
                      /\ fields' = fs
                      /\ model' = m
                      /\ model0' = m
                      /\ source_dict' = sd
                      /\ source0' = sd
                      /\ has_perm' = hp
            /\ fi' = 1
            /\ op' = "put"
            /\ pc' = "put_loop"
            /\ log' = <<>>
            /\ UNCHANGED <<entry, adapted, roundtrip, raised, result, response, args,
                           getVars>>
       ELSE NoSuchMethod("put")
    /\ UNCHANGED <<request, resolved, pathVars, schemaVars, ctxVars>>

\* _process_delete: resource.delete()
ViewDelete ==
    /\ op = "view" /\ pc = "call" /\ request.method = "DELETE"
    /\ IF resolved.kind = "ModelResource"
       THEN /\ trace' = Append(trace, "delete")
            /\ stack' = Append(stack, "view")
            /\ args' = <<>>
            /\ op' = "delete"
            /\ pc' = "call"
            /\ log' = <<>>
            /\ UNCHANGED <<raised, response, result, putVars, getVars>>
       ELSE NoSuchMethod("delete")
    /\ UNCHANGED <<request, resolved, pathVars, schemaVars, ctxVars>>

\* the handler has returned to _process_<method>, which builds the response,
\* or has raised into the view's except clause
ViewRespond ==
    /\ op \in {"get", "model_get", "schema", "post", "put", "delete"}
    /\ pc \in {"done", "raised"}
    /\ stack # <<>> /\ Top(stack) = "view"
    /\ stack' = Pop(stack)
    /\ op' = "view"
    /\ pc' = "responded"
    /\ response' =
          IF pc = "raised" THEN internal_error(raised.type)
          ELSE CASE op \in {"get", "model_get", "schema"} -> content_success(result.kind)
                 [] op = "post" ->
                        created(resource_uri(resource_path(resource, parent_resource_path)))
                 [] op = "put" -> no_content_success
                 [] OTHER -> success
    /\ UNCHANGED <<raised, log, result, putVars, getVars>>
    /\ UNCHANGED <<request, resolved, trace, args, pathVars, schemaVars, ctxVars>>

(* -------------------- SchemaResource.get / schema -------------------- *)
\* What DjangoField.schema returns: the base schema, with the model field's
\* metadata (blank, default, nullable, ...) when self._field is set; or the
\* exception that left it.
Schema(metadata) == [kind |-> "schema", metadata |-> metadata]
SchemaRaised(type) == [kind |-> type]

\* requests asking for the schema of the same resource class at the same
\* time, each in its own thread, all going through the one shared descriptor
StartSchema ==
    /\ op = "idle"
    /\ \E n \in 1..MaxThreads :
          spc' = [t \in Threads |-> IF t <= n THEN "clear" ELSE "idle"]
    /\ op' = "schema"
    /\ pc' = "running"
    /\ UNCHANGED <<raised, log, result, putVars, getVars>>
    /\ UNCHANGED <<viewVars, pathVars, _field, sresult, ctxVars>>

\* _process_get on a SchemaResource: this request's thread alone
ViewGetSchema ==
    /\ op = "view" /\ pc = "call" /\ request.method = "GET"
    /\ resolved.kind = "SchemaResource"
    /\ trace' = Append(trace, "get")
    /\ stack' = Append(stack, "view")
    /\ spc' = [t \in Threads |-> IF t = 1 THEN "clear" ELSE "idle"]
    /\ op' = "schema"
    /\ pc' = "running"
    /\ UNCHANGED <<raised, log, result, putVars, getVars>>
    /\ UNCHANGED <<request, resolved, response, args, pathVars, _field, sresult, ctxVars>>

SchemaStep(t, at, to) ==
    /\ op = "schema" /\ pc = "running"
    /\ spc[t] = at
    /\ spc' = [spc EXCEPT ![t] = to]
    /\ UNCHANGED <<op, pc, raised, log, result, putVars, getVars>>
    /\ UNCHANGED <<viewVars, pathVars, ctxVars>>

\* self._field = None
SchemaClear ==
    \E t \in Threads :
        /\ SchemaStep(t, "clear", "lookup")
        /\ _field' = "None"
        /\ UNCHANGED sresult

\* self._field = model._meta.get_field(field_name)
SchemaLookup ==
    \E t \in Threads :
        /\ SchemaStep(t, "lookup", "test")
        /\ _field' = "Field"
        /\ UNCHANGED sresult

\* schema = super(DjangoField, self).schema(ctx, **kwargs) ... if self._field:
SchemaTest ==
    \E t \in Threads :
        /\ IF _field = "Field"
           THEN /\ SchemaStep(t, "test", "read")
                /\ UNCHANGED sresult
           ELSE /\ SchemaStep(t, "test", "done")
                /\ sresult' = [sresult EXCEPT ![t] = Schema(FALSE)]
        /\ UNCHANGED _field

\* _schema = {'blank': self._field.blank, ...}; return dict(schema.items() + ...)
SchemaRead ==
    \E t \in Threads :
        /\ SchemaStep(t, "read", "done")
        /\ sresult' = [sresult EXCEPT ![t] = IF _field = "Field"
                                             THEN Schema(TRUE)
                                             ELSE SchemaRaised("AttributeError")]
        /\ UNCHANGED _field

\* every request's SchemaResource.get is over
SchemaDone ==
    /\ op = "schema" /\ pc = "running"
    /\ \A t \in Threads : spc[t] \in {"idle", "done"}
    /\ IF \E t \in Threads : sresult[t].kind = "AttributeError"
       THEN /\ pc' = "raised"
            /\ raised' = Exception("AttributeError", [published |-> 0])
            /\ UNCHANGED result
       ELSE /\ pc' = "done"
            /\ result' = [NoResult EXCEPT !.kind = "dict"]
            /\ UNCHANGED raised
    /\ UNCHANGED <<op, log, putVars, getVars, restVars>>

(* ------------------- ReverseField.handle_incoming --------------------- *)
\* ctx.peek(n): the n-th object from the top of the traversal stack,
\* IndexError when the stack is not that deep
peek(s, n) ==
    IF n <= Len(s)
    THEN [exc |-> "none", value |-> s[Len(s) + 1 - n]]
    ELSE [exc |-> "IndexError", value |-> 0]

\* the objects nested writes put on the stack
ObjectIds == 1..MaxObjects
ObjectStacks == SeqsUpTo(ObjectIds, MaxDepth)
Object(id) == Val("object", id, <<>>)

\* ReverseField(attribute_name, resource_class=None)
NoResourceClass == "None"
ReverseField(attribute_name, resource_class) ==
    [name |-> attribute_name, kind |-> "reverse", permission |-> NoPermission,
     resource_class |-> resource_class]

\* a payload sub-dict: `keys` is <<>> without a 'pk' key, else <<its value>>
SubDict(keys) == Val("dict", 0, keys)
\* the incoming dict: <<>> without the field's published property, else
\* <<its value>>
ReverseSourceDicts ==
    {<<>>} \cup
    {<<v>> : v \in {None, Uri(1), SubDict(<<>>), SubDict(<<None>>)}
                   \cup {SubDict(<<Int_(k)>>) : k \in 1..MaxObjects}}

\* self._resource_class.model_class.objects.filter(pk=pk)
filter_pk(rows, pk) == SelectSeq(rows, LAMBDA r : pk = Int_(r))

StartReverse ==
    /\ op = "idle"
    /\ \E rc \in {NoResourceClass, "ModelResource"}, sd \in ReverseSourceDicts,
          n \in 0..(MaxObjects - 1), s \in ObjectStacks,
          pk \in {None, Int_(1)}, attr \in {None, Object(MaxObjects)} :
          /\ fields' = <<ReverseField(1, rc)>>
          /\ source_dict' = sd
          /\ table' = [i \in 1..n |-> i]
          /\ object_stack' = s
          /\ target_obj' = TargetObj(1, pk, attr)
    /\ op' = "reverse"
    /\ pc' = "test_pk"
    /\ UNCHANGED <<model, model0, source0, has_perm, fi, entry, adapted, roundtrip>>
    /\ UNCHANGED <<page_size, params, filtered_queryset, sliced_queryset,
                   final_queryset, todo, objects, path_fragment>>
    /\ UNCHANGED <<raised, log, result, viewVars, pathVars, schemaVars, related>>

\* mutant: saved objects handled like new ones
ReverseTestPk_every_object ==
    /\ op = "reverse" /\ pc = "test_pk"
    /\ pc' = "peek"
    /\ UNCHANGED <<op, raised, log, result, putVars, getVars, restVars>>

\* if target_obj.pk is not None: return
ReverseTestPk ==
    /\ op = "reverse" /\ pc = "test_pk"
    /\ pc' = IF target_obj.pk # None THEN "done" ELSE "peek"
    /\ UNCHANGED <<op, raised, log, result, putVars, getVars, restVars>>

\* container = ctx.peek()
ReversePeek ==
    /\ op = "reverse" /\ pc = "peek"
    /\ log' = Append(log, Call("peek", 0, "1"))
    /\ IF peek(object_stack, 1).exc = "none"
       THEN /\ pc' = "place"
            /\ UNCHANGED raised
       ELSE /\ pc' = "raised"
            /\ raised' = Exception(peek(object_stack, 1).exc, [published |-> 0])
    /\ UNCHANGED <<op, result, putVars, getVars, restVars>>

\* mutant: a lookup that finds nothing leaves quietly
ReversePlace_lenient ==
    /\ op = "reverse" /\ pc = "place"
    /\ LET container == peek(object_stack, 1).value
           field == fields[1]
       IN IF container # target_obj.id
          THEN /\ target_obj' = [target_obj EXCEPT !.attr = Object(container)]
               /\ pc' = "done"
               /\ UNCHANGED raised
          ELSE IF /\ source_dict # <<>>
                  /\ field.resource_class # NoResourceClass
                  /\ source_dict[1].t = "dict"
                  /\ source_dict[1].s # <<>>
               THEN LET qs == filter_pk(table, source_dict[1].s[1])
                    IN /\ target_obj' = IF Len(qs) = 1
                                        THEN [target_obj EXCEPT !.attr = Obj(qs[1])]
                                        ELSE target_obj
                       /\ pc' = "done"
                       /\ UNCHANGED raised
               ELSE /\ pc' = "done"
                    /\ UNCHANGED <<target_obj, raised>>
    /\ UNCHANGED <<op, log, result, putVars, getVars>>
    /\ UNCHANGED <<viewVars, pathVars, schemaVars, object_stack, related>>

\* if container is not target_obj: setattr(target_obj, attribute_name, container)
\* else: the back-reference is looked up by the payload's 'pk'
ReversePlace ==
    /\ op = "reverse" /\ pc = "place"
    /\ LET container == peek(object_stack, 1).value
           field == fields[1]
       IN IF container # target_obj.id
          THEN /\ target_obj' = [target_obj EXCEPT !.attr = Object(container)]
               /\ pc' = "done"
               /\ UNCHANGED raised
          ELSE IF /\ source_dict # <<>>
                  /\ field.resource_class # NoResourceClass
                  /\ source_dict[1].t = "dict"
                  /\ source_dict[1].s # <<>>
               THEN LET qs == filter_pk(table, source_dict[1].s[1])
                    IN IF Len(qs) = 1
                       THEN /\ target_obj' = [target_obj EXCEPT !.attr = Obj(qs[1])]
                            /\ pc' = "done"
                            /\ UNCHANGED raised
                       ELSE /\ pc' = "raised"
                            /\ raised' = Exception("ValidationError", [published |-> 0])
                            /\ UNCHANGED target_obj
               ELSE /\ pc' = "done"
                    /\ UNCHANGED <<target_obj, raised>>
    /\ UNCHANGED <<op, log, result, putVars, getVars>>
    /\ UNCHANGED <<viewVars, pathVars, schemaVars, object_stack, related>>

(* ---------------------- RelatedCountField.prepare ---------------------- *)
\* what fields add to Related: select/prefetch names, and annotations
Select(attribute) ==
    [decl |-> "select", function |-> "", attribute |-> attribute, distinct |-> FALSE]
\* related.annotate(django.db.models.Count, self._orm_attribute, distinct=True)
Annotate(function, attribute, distinct) ==
    [decl |-> "annotate", function |-> function, attribute |-> attribute,
     distinct |-> distinct]

\* the prepare pass reaches the field with the declarations of the fields
\* before it, at whatever depth the traversal is
StartCountPrepare ==
    /\ op = "idle"
    /\ \E s \in ObjectStacks, r \in {<<>>, <<Select(1)>>} :
          /\ object_stack' = s
          /\ related' = r
    /\ op' = "count_prepare"
    /\ pc' = "peek"
    /\ UNCHANGED <<raised, log, result, putVars, getVars>>
    /\ UNCHANGED <<viewVars, pathVars, schemaVars, target_obj>>

\* mutant: any container on the stack counts as too deep
CountPeek_one_level ==
    /\ op = "count_prepare" /\ pc = "peek"
    /\ log' = Append(log, Call("peek", 0, "2"))
    /\ IF peek(object_stack, 1).exc = "IndexError"
       THEN /\ pc' = "annotate"
            /\ UNCHANGED raised
       ELSE /\ pc' = "raised"
            /\ raised' = Exception("SavoryPieError", [published |-> 0])
    /\ UNCHANGED <<op, result, putVars, getVars, restVars>>

\* try: ctx.peek(2)  except IndexError: pass  else: raise SavoryPieError(...)
CountPeek ==
    /\ op = "count_prepare" /\ pc = "peek"
    /\ log' = Append(log, Call("peek", 0, "2"))
    /\ IF peek(object_stack, 2).exc = "IndexError"
       THEN /\ pc' = "annotate"
            /\ UNCHANGED raised
       ELSE /\ pc' = "raised"
            /\ raised' = Exception("SavoryPieError", [published |-> 0])
    /\ UNCHANGED <<op, result, putVars, getVars, restVars>>

\* related.annotate(django.db.models.Count, self._orm_attribute, distinct=True)
CountAnnotate ==
    /\ op = "count_prepare" /\ pc = "annotate"
    /\ related' = Append(related, Annotate("Count", 2, TRUE))
    /\ pc' = "done"
    /\ UNCHANGED <<op, raised, log, result, putVars, getVars>>
    /\ UNCHANGED <<viewVars, pathVars, schemaVars, object_stack, target_obj>>

Next ==
    \/ StartPut
    \/ StartRoundTrip
    \/ PutLoop
    \/ Inner
    \/ Adapter
    \/ Authorize
    \/ Fn
    \/ Save
    \/ StartPost
    \/ PostCreate
    \/ PostReturn
    \/ StartGet
    \/ GetFilter
    \/ GetSlice
    \/ GetPrepare
    \/ GetRow
    \/ GetMeta
    \/ StartChild
    \/ ChildPrepare
    \/ ChildLookup
    \/ StartDelete
    \/ Delete
    \/ ViewStart
    \/ ViewResolve
    \/ ViewResolved
    \/ ViewDispatch
    \/ ViewGet
    \/ ViewPost
    \/ ViewPut
    \/ ViewDelete
    \/ ViewRespond
    \/ StartSchema
    \/ ViewGetSchema
    \/ SchemaClear
    \/ SchemaLookup
    \/ SchemaTest
    \/ SchemaRead
    \/ SchemaDone
    \/ StartReverse
    \/ ReverseTestPk
    \/ ReversePeek
    \/ ReversePlace
    \/ StartCountPrepare
    \/ CountPeek
    \/ CountAnnotate
    \/ Return

Spec == Init /\ [][Next]_vars


(* ------------------------------ claims -------------------------------- *)
\* positions of the calls `call` made for field i
CallsAt(call, i) == {k \in 1..Len(log) : log[k].call = call /\ log[k].field = i}
Guarded(i) == fields[i].permission.declared
InPut == op = "put" /\ fi \in 1..Len(fields)
\* the adapter of field i was called and returned (did not raise)
AdapterReturned(i) == CallsAt("auth_adapter", i) # {} /\ raised.type # "TypeError"
Ascending(s) == \A i, j \in 1..Len(s) : i < j => s[i] <= s[j]
SameBag(s, u) ==
    \A x \in Range(s) \cup Range(u) :
        Cardinality({i \in 1..Len(s) : s[i] = x}) = Cardinality({i \in 1..Len(u) : u[i] = x})

\* C1: a guarded field write whose adapter reports old # new and whose user
\* lacks the permission ends in AuthorizationError(<published name>), without
\* the wrapped handler having been called and with the model as it was when
\* handle_incoming was entered.
C1_DeniedWriteRaises ==
    (/\ InPut
     /\ Guarded(fi)
     /\ CallsAt("is_write_authorized", fi) # {}
     /\ adapted.source # adapted.target
     /\ ~has_perm)
    => /\ pc = "raised"
       /\ raised = [type |-> "AuthorizationError", name |-> [published |-> fields[fi].name]]
       /\ CallsAt("fn", fi) = {}
       /\ model = entry.model

C1_Witness ==
    /\ op = "put" /\ pc = "raised"
    /\ raised.type = "AuthorizationError"
    /\ adapted.source # adapted.target

\* C2: whenever a guarded field's mutation has been applied (the wrapped
\* handler was called, or the attribute differs from its value at the start
\* of the request), the adapter and then is_write_authorized were called for
\* that field before the handler.
C2_CheckBeforeMutation ==
    op = "put" =>
        \A i \in 1..Len(fields) : Guarded(i) =>
            /\ model[i] # model0[i] => CallsAt("fn", i) # {}
            /\ \A k \in CallsAt("fn", i) :
                   \E a, c \in 1..(k - 1) :
                       /\ a < c
                       /\ log[a].call = "auth_adapter" /\ log[a].field = i
                       /\ log[c].call = "is_write_authorized" /\ log[c].field = i

C2_Witness ==
    /\ op = "put"
    /\ \E i \in 1..Len(fields) : Guarded(i) /\ model[i] # model0[i]

C4_NoPermissionNoCheck ==
    op = "put" =>
        \A i \in 1..Len(fields) : ~Guarded(i) =>
            /\ CallsAt("auth_adapter", i) = {}
            /\ CallsAt("is_write_authorized", i) = {}
            /\ CallsAt("has_perm", i) = {}
            /\ i = fi => raised = NoException
            /\ (i = fi /\ pc = "fn") =>
                   (source_dict = entry.source_dict /\ model = entry.model)
            /\ i < fi => Cardinality(CallsAt("fn", i)) = 1
            /\ i >= fi => CallsAt("fn", i) = {}

C4_Witness ==
    /\ op = "put"
    /\ \E i \in 1..Len(fields) :
           ~Guarded(i) /\ CallsAt("fn", i) # {} /\ model[i] # model0[i]

\* C5: for a RelatedManagerField or URIListResourceField with a non-empty
\* incoming list and a non-empty stored relation, uri_auth_adapter returns
\* source and target as ascending lists holding exactly the incoming and the
\* stored URIs; they are equal iff the two collections hold the same URIs
\* (as bags), and differ whenever the sets of URIs differ.
C5_SortedCollections ==
    (/\ InPut /\ pc = "authorize"
     /\ fields[fi].kind \in CollectionKinds
     /\ Truthy(entry.source_dict[fi])
     /\ model[fi].s # <<>>)
    => LET incoming == entry.source_dict[fi].s
           stored == model[fi].s
       IN /\ adapted.source.t = "list" /\ adapted.target.t = "list"
          /\ Ascending(adapted.source.s) /\ Ascending(adapted.target.s)
          /\ SameBag(adapted.source.s, incoming)
          /\ SameBag(adapted.target.s, stored)
          /\ (adapted.source = adapted.target) <=> SameBag(incoming, stored)
          /\ Range(incoming) # Range(stored) => adapted.source # adapted.target

C5_Witness ==
    /\ InPut /\ pc = "authorize"
    /\ fields[fi].kind \in CollectionKinds
    /\ Len(model[fi].s) >= 2
    /\ entry.source_dict[fi].s # model[fi].s
    /\ ~Ascending(entry.source_dict[fi].s)
    /\ adapted.source = adapted.target


\* C6 as stated: when the incoming dict of a PUT is the resource's own GET
\* output, every is_write_authorized call sees old = new, the PUT is not
\* denied whatever has_perm answers, and the model ends as it started.
C6_RoundTripNeverDenied ==
    (op = "put" /\ roundtrip /\ pc \in {"done", "raised"})
    => /\ raised.type # "AuthorizationError"
       /\ \A k \in 1..Len(log) :
              log[k].call = "is_write_authorized" => log[k].arg = "unchanged"
       /\ model = model0

\* C7: in a paged GET, with p the page index, s the page size and c the
\* number of rows that pass the filter: meta has 'next' iff (p+1)*s < c and
\* 'prev' iff p > 0; 'next' is the URI of page p+1 and 'prev' of page p-1.
C7_PrevNext ==
    (op = "get" /\ pc = "done" /\ page_size # NoPaging)
    => LET p == IF params.page = Absent THEN 0 ELSE params.page
           s == page_size
           c == Cardinality({pk \in Range(table) :
                                params.flt = Absent \/ pk % 2 = params.flt})
           meta == result.meta
       IN /\ "next" \in DOMAIN meta <=> (p + 1) * s < c
          /\ "prev" \in DOMAIN meta <=> p > 0
          /\ "next" \in DOMAIN meta => meta["next"] = [page |-> p + 1]
          /\ "prev" \in DOMAIN meta => meta["prev"] = [page |-> p - 1]

C7_Witness ==
    /\ op = "get" /\ pc = "done" /\ page_size # NoPaging
    /\ params.page >= 1
    /\ {"prev", "next"} \subseteq DOMAIN result.meta

\* C8 as stated: get_child_resource with a segment (other than 'schema') that
\* identifies no existing row returns None and raises nothing.
C8_AbsentKeyReturnsNone ==
    (/\ op = "child" /\ pc \in {"done", "raised"}
     /\ path_fragment.t # "schema"
     /\ ~(path_fragment.t = "digits" /\ path_fragment.n \in Range(table)))
    => /\ pc = "done"
       /\ result.kind = "None"
       /\ raised = NoException

C10_PrepareLast ==
    /\ (op = "get" /\ pc \in {"rows", "meta", "done"}) =>
           /\ final_queryset.ops =
                  IF page_size # NoPaging
                  THEN <<"filter", "slice", "prepare">>
                  ELSE <<"filter", "prepare">>
           /\ Len(log) >= 3
           /\ log[1].call = "filter_queryset"
           /\ log[2].call = "slice_queryset"
           /\ log[3].call = "prepare_queryset"
           /\ \A k \in 4..Len(log) : log[k].call = "to_resource"
    /\ (op = "get" /\ pc \in {"filter", "slice", "prepare"}) =>
           /\ objects = <<>>
           /\ \A k \in 1..Len(log) : log[k].call # "to_resource"

C10_Witness ==
    /\ op = "get" /\ pc = "rows" /\ page_size # NoPaging
    /\ objects # <<>> /\ todo # <<>>


\* C11: a post that returns has created a resource around a blank model, run
\* put with the incoming dict (every field handled, the model saved and keyed)
\* and returns that resource; when the collection has path P and the resource
\* none of its own, the resource's path is P followed by the new key.  No path
\* is assigned before the put has returned; when the put raises, post raises,
\* returns nothing and assigns no path.
C11_PostCreatesThenAddresses ==
    /\ (op = "post" /\ pc = "done") =>
           /\ result.kind = "resource"
           /\ model0 = blank(fields)
           /\ source_dict = source0
           /\ \A i \in 1..Len(fields) : Cardinality(CallsAt("fn", i)) = 1
           /\ log[Len(log)].call = "save"
           /\ resource.pk # None
           /\ resource.pk.n = result.pk
           /\ resource.pk.n \in Range(table)
           /\ (~self_path.none /\ parent_resource_path.none) =>
                  resource_path(resource, parent_resource_path)
                      = Path(Append(self_path.segs, str(resource.pk)))
    /\ (op = "put" /\ stack # <<>> /\ Top(stack) = "post") =>
           resource._resource_path.none
    /\ (op = "post" /\ pc = "raised") =>
           /\ result = NoResult
           /\ resource._resource_path.none
           /\ raised # NoException

C11_Witness ==
    /\ op = "post" /\ pc = "done"
    /\ ~self_path.none /\ parent_resource_path.none
    /\ ~resource._resource_path.none
    /\ Len(table) >= 2


\* C12 as stated: a DELETE request that resolves to a ModelResource whose
\* allowed_methods contains DELETE is answered 200 after the model's delete
\* has been invoked exactly once.
C12_DeleteSucceeds ==
    (/\ op = "view" /\ pc = "responded"
     /\ request.method = "DELETE"
     /\ resolved.kind = "ModelResource"
     /\ "DELETE" \in resolved.allowed_methods)
    => /\ response.status = 200
       /\ Cardinality({k \in 1..Len(log) : log[k].call = "model.delete"}) = 1


Responded == op = "view" /\ pc = "responded"
HandlerCalls == {k \in 1..Len(trace) : trace[k] \in {"get", "post", "put", "delete"}}

\* C13: a request that resolves to a resource and whose method is not among
\* the resource's allowed_methods (GET/POST/PUT/DELETE not allowed, or any
\* other method) is answered 405 with an 'Allowed' header holding exactly the
\* allowed methods, and no get/post/put/delete handler is called.
C13_NotAllowedIs405 ==
    (/\ Responded
     /\ resolved.kind \in {"QuerySetResource", "ModelResource", "SchemaResource"}
     /\ request.method \notin resolved.allowed_methods)
    => /\ response.status = 405
       /\ DOMAIN response.header = {"Allowed"}
       /\ response.header["Allowed"] = resolved.allowed_methods
       /\ HandlerCalls = {}
       /\ raised = NoException

C13_Witness ==
    /\ Responded
     /\ resolved.kind = "ModelResource"
     /\ request.method = "PUT"
     /\ resolved.allowed_methods = {"GET"}
     /\ response.status = 405

\* C14: when the path resolves to None the answer is 404 whatever the method;
\* allowed_methods is never read and no handler is called.
C14_UnresolvedIs404 ==
    (Responded /\ resolved.kind = "None")
    => /\ response.status = 404
       /\ trace = <<>>
       /\ raised = NoException

C14_Witness ==
    /\ Responded /\ resolved.kind = "None"
    /\ request.method = "PATCH"
    /\ Len(request.path) = 2
    /\ response.status = 404

\* C15: an exception raised while the path is resolved or while a handler
\* runs never leaves the view: the request ends with a 500 response whose
\* body has an 'error' property describing the exception.
C15_ExceptionsAre500 ==
    /\ (request # NoRequest /\ stack = <<>>) => (op = "view" /\ pc # "raised")
    /\ (Responded /\ raised # NoException) =>
           /\ response.status = 500
           /\ DOMAIN response.body = {"error"}
           /\ response.body["error"] = raised.type
    /\ (Responded /\ response.status = 500) => raised # NoException

C15_Witness ==
    /\ Responded
    /\ raised.type = "AuthorizationError"
    /\ request.method = "POST"
    /\ response.status = 500

\* C16: a POST whose resource.post returned is answered 201 with a 'Location'
\* header holding the URI of the returned resource; a PUT whose resource.put
\* returned is answered 204 without a body; 201 and 204 are given only after
\* the handler was called, saved the model and raised nothing.
C16_CreatedAndNoContent ==
    /\ (Responded /\ request.method = "POST" /\ HandlerCalls # {}
            /\ raised = NoException) =>
           /\ response.status = 201
           /\ DOMAIN response.header = {"Location"}
           /\ ~resource_path(resource, parent_resource_path).none
           /\ response.header["Location"]
                  = resource_uri(resource_path(resource, parent_resource_path))
           /\ result.kind = "resource" /\ result.pk = resource.pk.n
    /\ (Responded /\ request.method = "PUT" /\ HandlerCalls # {}
            /\ raised = NoException) =>
           /\ response.status = 204
           /\ response.body = <<>>
    /\ (Responded /\ response.status \in {201, 204}) =>
           /\ raised = NoException
           /\ trace = <<"allowed_methods",
                         IF response.status = 201 THEN "post" ELSE "put">>
           /\ log # <<>> /\ log[Len(log)].call = "save"

C16_Witness ==
    /\ Responded /\ response.status = 201
    /\ parent_resource_path.none
    /\ resource._resource_path = Path(<<Name(1), str(Int_(MaxRows + 1))>>)


\* the step keeps the same ModelResource instance at hand
SameResource == resource.id # 0 /\ resource'.id = resource.id
PathOf(r) == resource_path(r, parent_resource_path)

\* C17 as stated: once the resource_path property of a resource returns a
\* path, no step of a get, put, post or get_child_resource changes what it
\* returns.
C17_PathNeverChanges ==
    [][(SameResource /\ ~PathOf(resource).none)
           => resource_path(resource', parent_resource_path') = PathOf(resource)]_vars

\* C17 amended: a path assigned to a resource is never replaced (to_resource
\* and post assign only when the property returns None), and the property's
\* value changes only in a step that changes the model's key.
C17_AssignedPathStable ==
    [][SameResource =>
           /\ ~resource._resource_path.none
                  => resource'._resource_path = resource._resource_path
           /\ (~PathOf(resource).none /\ resource'.pk = resource.pk)
                  => resource_path(resource', parent_resource_path') = PathOf(resource)]_vars

C17_Witness ==
    /\ op = "put" /\ pc = "done"
    /\ resource.id # 0
    /\ ~resource._resource_path.none
    /\ model # model0


PrepareCalls == {k \in 1..Len(log) : log[k].call = "prepare_queryset"}
ToResourceCalls == {k \in 1..Len(log) : log[k].call = "to_resource"}

\* C18: in one QuerySetResource.get, and in one get_child_resource lookup,
\* the prepare pass is made exactly once whatever the number of rows, before
\* the first row is turned into a resource, and not again for any row.
C18_PrepareOnce ==
    /\ (op = "get" /\ pc \in {"rows", "meta", "done"}) =>
           /\ Cardinality(PrepareCalls) = 1
           /\ \A k \in ToResourceCalls : \A q \in PrepareCalls : q < k
           /\ pc \in {"meta", "done"} =>
                  Cardinality(ToResourceCalls) = Len(final_queryset.rows)
    /\ (op = "get" /\ pc \in {"filter", "slice", "prepare"}) => PrepareCalls = {}
    /\ (op = "child" /\ pc \in {"child_lookup", "done", "raised"}
            /\ path_fragment.t # "schema") =>
           /\ Cardinality(PrepareCalls) = 1
           /\ \A k \in ToResourceCalls : \A q \in PrepareCalls : q < k

C18_Witness ==
    /\ op = "get" /\ pc = "done"
    /\ Len(objects) >= 3
    /\ Cardinality(ToResourceCalls) = Len(objects)


\* C19 as stated: when a put is over (returned or raised, no adapter having
\* raised), every guarded field of the resource has had its adapter evaluated
\* exactly once and is_write_authorized called exactly once.
C19_EveryGuardedFieldOnce ==
    (op = "put" /\ pc \in {"done", "raised"} /\ raised.type # "TypeError") =>
        \A i \in 1..Len(fields) : Guarded(i) =>
            /\ Cardinality(CallsAt("auth_adapter", i)) = 1
            /\ Cardinality(CallsAt("is_write_authorized", i)) = 1

\* C19 amended: in a put, a guarded field has its adapter evaluated and
\* is_write_authorized called at most once each, the adapter first; exactly
\* once each when the field's handler was reached and the adapter returned;
\* and not at all when the put stopped at an earlier field.
C19_ReachedGuardedFieldOnce ==
    op = "put" =>
        \A i \in 1..Len(fields) : Guarded(i) =>
            /\ Cardinality(CallsAt("auth_adapter", i)) <= 1
            /\ Cardinality(CallsAt("is_write_authorized", i)) <= 1
            /\ \A c \in CallsAt("is_write_authorized", i) :
                   \E a \in CallsAt("auth_adapter", i) : a < c
            /\ (CallsAt("fn", i) # {} \/ (i = fi /\ pc = "raised")) =>
                   /\ Cardinality(CallsAt("auth_adapter", i)) = 1
                   /\ raised.type # "TypeError" =>
                          Cardinality(CallsAt("is_write_authorized", i)) = 1
            /\ CallsAt("handle_incoming", i) = {} =>
                   /\ CallsAt("auth_adapter", i) = {}
                   /\ CallsAt("is_write_authorized", i) = {}
            /\ (pc = "raised" /\ i > fi) => CallsAt("handle_incoming", i) = {}

C19_Witness ==
    /\ op = "put" /\ pc = "done"
    /\ Len(fields) >= 2
    /\ \A i \in 1..Len(fields) :
           /\ Guarded(i)
           /\ Cardinality(CallsAt("is_write_authorized", i)) = 1
    /\ model # model0


\* C20 as stated: no request writes to the shared Field descriptor, so every
\* schema request, however the requests interleave, returns what it returns
\* when run alone: the field's schema with the model field's metadata.
C20_DescriptorsReadOnly ==
    op = "schema" =>
        \A t \in Threads : spc[t] = "done" => sresult[t] = Schema(TRUE)

\* C21: is_write_authorized returns True without calling user.has_perm when
\* source equals target; otherwise it calls user.has_perm once, with the
\* validator's permission name, and returns exactly its answer (the decorator
\* goes on to the wrapped handler on True and raises on False).
C21_HasPermOnlyOnChange ==
    (/\ InPut
     /\ Guarded(fi)
     /\ CallsAt("is_write_authorized", fi) # {})
    => IF adapted.source = adapted.target
       THEN /\ pc = "fn"
            /\ CallsAt("has_perm", fi) = {}
       ELSE /\ Cardinality(CallsAt("has_perm", fi)) = 1
            /\ \A k \in CallsAt("has_perm", fi) :
                   /\ log[k].arg = fields[fi].permission.permission_name
                   /\ log[k - 1].call = "is_write_authorized"
            /\ pc = "fn" <=> has_perm
            /\ pc = "raised" <=> ~has_perm

C21_Witness ==
    /\ InPut /\ pc = "fn"
    /\ Guarded(fi)
    /\ fields[fi].permission.permission_name = "other"
    /\ adapted.source # adapted.target
    /\ CallsAt("has_perm", fi) # {}

\* the rows of the table the request's filter keeps, in table order
Matching == SelectSeq(table, LAMBDA pk : params.flt = Absent \/ pk % 2 = params.flt)
GetReturned == op = "get" /\ pc = "done" /\ result.kind = "dict"

\* C22: in the result of a GET, when paging is enabled meta.count is the
\* number of rows matching the filters, whatever the page index; when paging
\* is disabled meta.count is the number of entries of 'objects' and meta has
\* neither 'prev' nor 'next'.
C22_Count ==
    GetReturned =>
        IF page_size # NoPaging
        THEN result.meta["count"] = Len(Matching)
        ELSE /\ result.meta["count"] = Len(result.objects)
             /\ DOMAIN result.meta = {"count"}

C22_Witness ==
    /\ GetReturned
    /\ page_size # NoPaging
    /\ params.page > 0 /\ params.flt # Absent
    /\ Len(table) > Len(Matching)
    /\ result.meta["count"] > Len(result.objects)
    /\ result.objects # <<>>

\* the entries of s at offsets a up to but excluding b
Window(s, a, b) == [i \in 1..(Min(b, Len(s)) - Min(a, Len(s))) |-> s[a + i]]

\* C23: a paged GET with page size s and page index p (0 when 'page' is
\* absent) returns in 'objects' exactly the filtered rows at offsets p*s up to
\* but excluding p*s+s, in queryset order: never more than s entries, and none
\* when p*s is at or past the filtered count; without paging it returns all
\* the filtered rows.
C23_Page ==
    GetReturned =>
        IF page_size # NoPaging
        THEN LET p == IF params.page = Absent THEN 0 ELSE params.page
             IN /\ result.objects = Window(Matching, p * page_size, p * page_size + page_size)
                /\ Len(result.objects) <= page_size
                /\ p * page_size >= Len(Matching) => result.objects = <<>>
        ELSE result.objects = Matching

C23_Witness ==
    /\ GetReturned
    /\ page_size > 1
    /\ params.page > 0
    /\ Len(result.objects) = page_size
    /\ Len(Matching) > params.page * page_size + page_size

\* C24: ReverseField.handle_incoming on an object that has a pk returns at
\* once: the traversal stack is not read, and the object's back-reference,
\* the incoming dict, the stack and the rows stay as they were.
C24_SavedTargetUntouched ==
    [][(op = "reverse" /\ op' = "reverse" /\ target_obj.pk # None) =>
          /\ pc' = "done"
          /\ raised' = NoException
          /\ target_obj' = target_obj
          /\ source_dict' = source_dict
          /\ object_stack' = object_stack
          /\ table' = table
          /\ \A k \in 1..Len(log') : log'[k].call # "peek"]_vars

C24_Witness ==
    /\ op = "reverse" /\ pc = "done"
    /\ target_obj.pk # None
    /\ target_obj.attr # None
    /\ object_stack # <<>> /\ Top(object_stack) # target_obj.id

\* the rows the payload's 'pk' matches, when handle_incoming looks it up
PayloadHasPk ==
    /\ source_dict # <<>>
    /\ source_dict[1].t = "dict"
    /\ source_dict[1].s # <<>>
Looked == fields[1].resource_class # NoResourceClass /\ PayloadHasPk

\* C25: for an unsaved target, when the top of the traversal stack is another
\* object the back-reference becomes that object, whatever the payload holds;
\* when the top is the target itself the back-reference is set only to the
\* one row the payload's 'pk' matches, and a 'pk' matching no row raises
\* ValidationError with the back-reference not set.
C25_BackReference ==
    (/\ op = "reverse" /\ pc \in {"done", "raised"}
     /\ target_obj.pk = None
     /\ object_stack # <<>>)
    => IF Top(object_stack) # target_obj.id
       THEN /\ pc = "done"
            /\ target_obj.attr = Object(Top(object_stack))
       ELSE /\ target_obj.attr.t = "model" =>
                   /\ Looked
                   /\ Len(filter_pk(table, source_dict[1].s[1])) = 1
                   /\ Int_(target_obj.attr.n) = source_dict[1].s[1]
                   /\ pc = "done"
            /\ (Looked /\ filter_pk(table, source_dict[1].s[1]) = <<>>) =>
                   /\ pc = "raised"
                   /\ raised.type = "ValidationError"
                   /\ target_obj.attr.t # "model"
            /\ (Looked /\ Len(filter_pk(table, source_dict[1].s[1])) = 1) =>
                   target_obj.attr.t = "model"

C25_Witness ==
    /\ op = "reverse" /\ pc = "done"
    /\ target_obj.pk = None
    /\ Len(object_stack) = MaxDepth
    /\ Top(object_stack) # target_obj.id
    /\ source_dict = <<>>
    /\ target_obj.attr = Object(Top(object_stack))

C25_WitnessLookup ==
    /\ op = "reverse" /\ pc = "raised"
    /\ raised.type = "ValidationError"
    /\ Top(object_stack) = target_obj.id

Annotations == SelectSeq(related, LAMBDA d : d.decl = "annotate")

\* C26: RelatedCountField.prepare raises SavoryPieError, with no annotation
\* added to the related declarations, whenever the traversal stack holds two
\* objects or more (ctx.peek(2) succeeds); on a shallower stack (IndexError)
\* it adds the distinct Count annotation, once, after what was declared.
C26_TopLevelOnly ==
    (op = "count_prepare" /\ pc \in {"done", "raised"})
    => IF Len(object_stack) >= 2
       THEN /\ pc = "raised"
            /\ raised.type = "SavoryPieError"
            /\ Annotations = <<>>
       ELSE /\ pc = "done"
            /\ raised = NoException
            /\ Annotations = <<Annotate("Count", 2, TRUE)>>
            /\ related[Len(related)] = Annotate("Count", 2, TRUE)

C26_Witness ==
    /\ op = "count_prepare" /\ pc = "raised"
    /\ Len(object_stack) >= 2
    /\ related # <<>>

\* the field the put is at went through uri_auth_adapter
UriAdapted ==
    /\ InPut /\ Guarded(fi)
    /\ pc \in {"authorize", "fn", "raised"}
    /\ \E k \in CallsAt("auth_adapter", fi) : log[k].arg = "uri_auth_adapter"
NullOrEmptyList(v) == v = None \/ (v.t \in {"list", "dictlist"} /\ v.s = <<>>)
EmptyRelation(v) == v.t = "manager" /\ v.s = <<>>
Checked == pc \in {"fn", "raised"}

\* C27 as stated: whenever the incoming value or the stored value is empty or
\* null (empty list, None, empty stored relation), for any field kind,
\* uri_auth_adapter reports source = target = None, and the write is
\* authorized without has_perm being called.
C27_EmptyIsUnchanged ==
    (/\ UriAdapted
     /\ \/ NullOrEmptyList(entry.source_dict[fi])
        \/ entry.model[fi] = None
        \/ EmptyRelation(entry.model[fi]))
    => /\ raised = NoException
       /\ adapted.source = None /\ adapted.target = None
       /\ Checked => (pc = "fn" /\ CallsAt("has_perm", fi) = {})

\* C27 amended: uri_auth_adapter reports source = target = None whenever the
\* incoming value is None or an empty list, or the stored value is None, for
\* any field kind, and the write is then authorized without has_perm being
\* called (so emptying a non-empty relation passes unchecked).  A stored
\* relation is reached through its manager, which is truthy with no rows: a
\* non-empty incoming list is then compared, sorted, with the empty list,
\* differs from it, and has_perm decides.
C27_NullOrEmptyIncomingIsUnchanged ==
    /\ (/\ UriAdapted
        /\ \/ NullOrEmptyList(entry.source_dict[fi])
           \/ entry.model[fi] = None)
       => /\ raised = NoException
          /\ adapted.source = None /\ adapted.target = None
          /\ Checked => (pc = "fn" /\ CallsAt("has_perm", fi) = {})
    /\ (/\ UriAdapted
        /\ EmptyRelation(entry.model[fi])
        /\ ~NullOrEmptyList(entry.source_dict[fi]))
       => /\ adapted.source = List(sort(entry.source_dict[fi].s))
          /\ adapted.target = List(<<>>)
          /\ Checked => /\ Cardinality(CallsAt("has_perm", fi)) = 1
                         /\ pc = "fn" <=> has_perm

C27_Witness ==
    /\ UriAdapted /\ pc = "fn"
    /\ ~has_perm
    /\ fields[fi].kind \in CollectionKinds
    /\ entry.model[fi].s # <<>>
    /\ entry.source_dict[fi].t \in {"list", "dictlist"}
    /\ entry.source_dict[fi].s = <<>>

\* C28: for a guarded field whose permission object carries an auth_adapter,
\* that adapter is the only one called and (name, old, new) are its output;
\* the adapter the decorator was built with is called, alone, only when the
\* permission's auth_adapter is None.
C28_PermissionAdapterFirst ==
    op = "put" =>
        \A i \in 1..Len(fields) : Guarded(i) =>
            LET own == fields[i].permission.auth_adapter
                chosen == IF own # "none" THEN own ELSE decorator_adapter(fields[i])
            IN /\ Cardinality(CallsAt("auth_adapter", i)) <= 1
               /\ \A k \in CallsAt("auth_adapter", i) : log[k].arg = chosen
               /\ (i = fi /\ pc = "authorize") =>
                      adapted = call_adapter(chosen, fields[i], entry.source_dict[i],
                                             entry.model[i])

C28_Witness ==
    /\ InPut /\ pc = "authorize"
    /\ fields[fi].permission.auth_adapter = "datetime_auth_adapter"
    /\ decorator_adapter(fields[fi]) = "authorization_adapter"
    /\ adapted.target.t = "datetime"
    /\ adapted # authorization_adapter(fields[fi], entry.source_dict[fi], entry.model[fi])

====
